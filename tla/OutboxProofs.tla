---------------------------- MODULE OutboxProofs ----------------------------
(***************************************************************************)
(* Requests to send messages, for any number of requests, messages,        *)
(* connections and failures, and what their callers may rely on.           *)
(***************************************************************************)
EXTENDS Outbox, FiniteSetTheorems, TLAPS

\* Before its transaction a request has created nothing.
Early == {"idle", "outer", "asking", "checking"}

\* What is true of a message of request r at each place of r.
Follows(r, m) ==
  /\ pc[r] \in Early => work[m] = "todo"
  /\ pc[r] # "creating" => m \notin draft
  /\ pc[r] \in Early \union {"creating"} => m \notin messages
  /\ pc[r] = "creating" /\ ~ MustFail(r) /\ work[m] # "todo" => m \in draft
  /\ pc[r] \in Late \ {"unwinding"} => work[m] = "created" /\ m \in messages
  /\ pc[r] = "scheduling" => m \notin jobs
  /\ pc[r] = "calling" => m \in jobs
  /\ pc[r] \in {"marking", "ok"} => m \in tasks
  /\ pc[r] \in {"failed", "cut"} /\ r \notin struck => m \notin messages

OutboxInv ==
  /\ OutboxTypeOK
  /\ tasks \subseteq jobs /\ jobs \subseteq messages
  /\ \A r \in Requests : pc[r] \in {"excusing", "unwinding"} => r \in struck
  /\ \A r \in Requests : \A m \in Batch[r] : Follows(r, m)

USE OutboxAssumption

LEMMA OutboxInvInit == OutboxInit => OutboxInv
<1> SUFFICES ASSUME OutboxInit PROVE OutboxInv
  OBVIOUS
<1> USE DEF OutboxInit
<1>1. OutboxTypeOK
  BY DEF OutboxTypeOK, Stages
<1>2. \A r \in Requests : \A m \in Batch[r] : Follows(r, m)
  BY DEF Follows, Early, Late
<1>3. QED
  BY <1>1, <1>2 DEF OutboxInv

LEMMA OutboxTypeStep ==
  ASSUME OutboxTypeOK, [OutboxNext]_vars
  PROVE  OutboxTypeOK'
<1> USE DEF OutboxTypeOK
<1>1. ASSUME NEW r \in Requests, Arrive(r) PROVE OutboxTypeOK'
  BY <1>1 DEF Arrive, vars, tables, Goto, Fault, Strike, Stages, Open, Connected, Late
<1>2. ASSUME NEW r \in Requests, ConnectOuter(r) PROVE OutboxTypeOK'
  BY <1>2 DEF ConnectOuter, vars, tables, Goto, Fault, Strike, Stages, Open, Connected, Late
<1>3. ASSUME NEW r \in Requests, Connect(r) PROVE OutboxTypeOK'
  BY <1>3 DEF Connect, vars, tables, Goto, Fault, Strike, Stages, Open, Connected, Late
<1>4. ASSUME NEW r \in Requests, Refuse(r) PROVE OutboxTypeOK'
  BY <1>4 DEF Refuse, vars, tables, Goto, Fault, Strike, Stages, Open, Connected, Late
<1>5. ASSUME NEW r \in Requests, Begin(r) PROVE OutboxTypeOK'
  BY <1>5 DEF Begin, vars, tables, Goto, Fault, Strike, Stages, Open, Connected, Late
<1>6. ASSUME NEW r \in Requests, EndTransaction(r) PROVE OutboxTypeOK'
  BY <1>6 DEF EndTransaction, vars, tables, Goto, Fault, Strike, Kept, Stages, Open, Connected, Late
<1>7. ASSUME NEW r \in Requests, TransactionFails(r) PROVE OutboxTypeOK'
  BY <1>7 DEF TransactionFails, vars, tables, Goto, Fault, Strike, Kept, Stages, Open, Connected, Late
<1>8. ASSUME NEW r \in Requests, LogScheduling(r) PROVE OutboxTypeOK'
  BY <1>8 DEF LogScheduling, vars, tables, Goto, Fault, Strike, Stages, Open, Connected, Late
<1>9. ASSUME NEW r \in Requests, InsertJobs(r) PROVE OutboxTypeOK'
  BY <1>9 DEF InsertJobs, vars, tables, Goto, Fault, Strike, Created, Stages, Open, Connected, Late
<1>10. ASSUME NEW r \in Requests, InsertJobsFails(r) PROVE OutboxTypeOK'
  BY <1>10 DEF InsertJobsFails, vars, tables, Goto, Fault, Strike, Stages, Open, Connected, Late
<1>11. ASSUME NEW r \in Requests, CallScheduler(r) PROVE OutboxTypeOK'
  <2>1. pc' \in [Requests -> Stages]
    BY <1>11 DEF CallScheduler, Goto, Stages, Open, Connected, Late
  <2>2. tasks' \in SUBSET Messages
    BY <1>11 DEF CallScheduler, Created
  <2>3. faults' \in 0 .. MaxFaults /\ struck' \in SUBSET Requests
    BY <1>11 DEF CallScheduler, Fault, Strike
  <2>4. QED
    BY <1>11, <2>1, <2>2, <2>3 DEF CallScheduler
<1>12. ASSUME NEW r \in Requests, LogFailure(r) PROVE OutboxTypeOK'
  BY <1>12 DEF LogFailure, vars, tables, Goto, Fault, Strike, Stages, Open, Connected, Late
<1>13. ASSUME NEW r \in Requests, Unwind(r) PROVE OutboxTypeOK'
  BY <1>13 DEF Unwind, vars, tables, Goto, Fault, Strike, Stages, Open, Connected, Late
<1>14. ASSUME NEW r \in Requests, Finish(r) PROVE OutboxTypeOK'
  BY <1>14 DEF Finish, vars, tables, Goto, Fault, Strike, Stages, Open, Connected, Late
<1>15. ASSUME NEW r \in Requests, OuterFails(r) PROVE OutboxTypeOK'
  BY <1>15 DEF OuterFails, vars, tables, Goto, Fault, Strike, Stages, Open, Connected, Late
<1>16. ASSUME NEW r \in Requests, NEW m \in Messages, InsertMessage(r, m) PROVE OutboxTypeOK'
  BY <1>16 DEF InsertMessage, vars, tables, Goto, Fault, Strike
<1>17. ASSUME NEW r \in Requests, NEW m \in Messages, CreationFails(r, m) PROVE OutboxTypeOK'
  BY <1>17 DEF CreationFails, vars, tables, Goto, Fault, Strike
<1>18. ASSUME NEW r \in Requests, NEW m \in Messages, LogCreation(r, m) PROVE OutboxTypeOK'
  BY <1>18 DEF LogCreation, vars, tables, Goto, Fault, Strike
<1>19. ASSUME Crash PROVE OutboxTypeOK'
  <2>1. pc' \in [Requests -> Stages]
    BY <1>19 DEF Crash, Stages
  <2>2. QED
    BY <1>19, <2>1 DEF Crash, vars, tables, Goto, Fault, Strike
<1>20. CASE UNCHANGED vars
  BY <1>20 DEF vars, tables, Goto, Fault, Strike
<1>21. QED BY <1>1, <1>2, <1>3, <1>4, <1>5, <1>6, <1>7, <1>8, <1>9, <1>10, <1>11, <1>12, <1>13, <1>14, <1>15, <1>16, <1>17, <1>18, <1>19, <1>20 DEF OutboxNext, Step

\* Nothing happens to the other requests and their messages.
Others(r) ==
  /\ struck \subseteq struck'
  /\ \A s \in Requests \ {r} :
       /\ pc'[s] = pc[s]
       /\ \A m \in Batch[s] :
            /\ work'[m] = work[m]
            /\ m \in draft' <=> m \in draft
            /\ m \in messages' <=> m \in messages
            /\ m \in jobs' <=> m \in jobs
            /\ m \in tasks' <=> m \in tasks

LEMMA OthersFollow ==
  ASSUME OutboxInv, NEW r \in Requests, Others(r)
  PROVE  \A s \in Requests \ {r} : \A m \in Batch[s] : Follows(s, m)'
<1> SUFFICES ASSUME NEW s \in Requests \ {r}, NEW m \in Batch[s] PROVE Follows(s, m)'
  OBVIOUS
<1>1. Follows(s, m)
  BY DEF OutboxInv
<1>2. MustFail(s)' <=> MustFail(s)
  BY DEF Others, MustFail
<1>3. QED
  BY <1>1, <1>2 DEF Others, Follows

\* What the request that acts, and whoever watches, must be shown.
LEMMA OneFollows ==
  ASSUME OutboxInv, NEW r \in Requests, Others(r), OutboxTypeOK',
         \A m \in Batch[r] : Follows(r, m)',
         tasks' \subseteq jobs', jobs' \subseteq messages',
         pc'[r] \in {"excusing", "unwinding"} => r \in struck'
  PROVE  OutboxInv'
<1>1. \A s \in Requests : pc'[s] \in {"excusing", "unwinding"} => s \in struck'
  BY DEF OutboxInv, Others
<1>2. QED
  BY <1>1, OthersFollow DEF OutboxInv

LEMMA OutboxInvStep == OutboxInv /\ [OutboxNext]_vars => OutboxInv'
<1> SUFFICES ASSUME OutboxInv, [OutboxNext]_vars PROVE OutboxInv'
  OBVIOUS
<1>t. OutboxTypeOK /\ OutboxTypeOK'
  BY OutboxTypeStep DEF OutboxInv
<1>d. \A r \in Requests : \A s \in Requests \ {r} : \A m \in Batch[s] : m \in Messages /\ m \notin Batch[r]
  OBVIOUS
<1>b. \A r \in Requests : \A m \in Batch[r] : m \in Messages
  OBVIOUS
<1>f. /\ \A r \in Requests : \A m \in Batch[r] : Follows(r, m)
      /\ tasks \subseteq jobs /\ jobs \subseteq messages
      /\ \A r \in Requests : pc[r] \in {"excusing", "unwinding"} => r \in struck
  BY DEF OutboxInv
\* A request that only moves on.
<1>g. ASSUME NEW r \in Requests, NEW s, pc' = [pc EXCEPT ![r] = s], UNCHANGED <<work, draft, tables, struck>>,
             s \in {"excusing", "unwinding"} => r \in struck,
             \A m \in Batch[r] : Follows(r, m)'
      PROVE  OutboxInv'
  <2>1. Others(r)
    BY <1>t, <1>g DEF Others, OutboxTypeOK, tables
  <2>2. pc'[r] = s
    BY <1>t, <1>g DEF OutboxTypeOK
  <2>3. QED
    BY <1>t, <1>f, <1>g, <2>1, <2>2, OneFollows DEF tables

<1>1. ASSUME NEW r \in Requests, Arrive(r) PROVE OutboxInv'
  <2> DEFINE s == IF r \in Invitations THEN "outer" ELSE "asking"
  <2>1. pc' = [pc EXCEPT ![r] = s] /\ UNCHANGED <<work, draft, tables, struck>>
    BY <1>1 DEF Arrive, vars, tables, Goto, Fault, Strike
  <2>2. pc'[r] = s
    BY <1>t, <2>1 DEF OutboxTypeOK
  <2>3. \A m \in Batch[r] : Follows(r, m)'
    BY <1>f, <1>1, <2>1, <2>2 DEF Arrive, Follows, Early, Late, tables
  <2>4. s \in {"excusing", "unwinding"} => r \in struck
    BY <1>f, <1>1 DEF Arrive
  <2>5. QED
    BY <1>g, <2>1, <2>3, <2>4
<1>2. ASSUME NEW r \in Requests, ConnectOuter(r) PROVE OutboxInv'
  <2> DEFINE s == "asking"
  <2>1. pc' = [pc EXCEPT ![r] = s] /\ UNCHANGED <<work, draft, tables, struck>>
    BY <1>2 DEF ConnectOuter, vars, tables, Goto, Fault, Strike
  <2>2. pc'[r] = s
    BY <1>t, <2>1 DEF OutboxTypeOK
  <2>3. \A m \in Batch[r] : Follows(r, m)'
    BY <1>f, <1>2, <2>1, <2>2 DEF ConnectOuter, Follows, Early, Late, tables
  <2>4. s \in {"excusing", "unwinding"} => r \in struck
    BY <1>f, <1>2 DEF ConnectOuter
  <2>5. QED
    BY <1>g, <2>1, <2>3, <2>4
<1>3. ASSUME NEW r \in Requests, Connect(r) PROVE OutboxInv'
  <2> DEFINE s == "checking"
  <2>1. pc' = [pc EXCEPT ![r] = s] /\ UNCHANGED <<work, draft, tables, struck>>
    BY <1>3 DEF Connect, vars, tables, Goto, Fault, Strike
  <2>2. pc'[r] = s
    BY <1>t, <2>1 DEF OutboxTypeOK
  <2>3. \A m \in Batch[r] : Follows(r, m)'
    BY <1>f, <1>3, <2>1, <2>2 DEF Connect, Follows, Early, Late, tables
  <2>4. s \in {"excusing", "unwinding"} => r \in struck
    BY <1>f, <1>3 DEF Connect
  <2>5. QED
    BY <1>g, <2>1, <2>3, <2>4
<1>4. ASSUME NEW r \in Requests, Refuse(r) PROVE OutboxInv'
  <2> DEFINE s == "failed"
  <2>1. pc' = [pc EXCEPT ![r] = s] /\ UNCHANGED <<work, draft, tables, struck>>
    BY <1>4 DEF Refuse, vars, tables, Goto, Fault, Strike
  <2>2. pc'[r] = s
    BY <1>t, <2>1 DEF OutboxTypeOK
  <2>3. \A m \in Batch[r] : Follows(r, m)'
    BY <1>f, <1>4, <2>1, <2>2 DEF Refuse, Follows, Early, Late, tables
  <2>4. s \in {"excusing", "unwinding"} => r \in struck
    BY <1>f, <1>4 DEF Refuse
  <2>5. QED
    BY <1>g, <2>1, <2>3, <2>4
<1>5. ASSUME NEW r \in Requests, Begin(r) PROVE OutboxInv'
  <2>1. pc' = [pc EXCEPT ![r] = "creating"] /\ UNCHANGED <<work, draft, tables, struck>>
    BY <1>5 DEF Begin, vars, tables, Goto, Fault, Strike
  <2>2. pc'[r] = "creating"
    BY <1>t, <2>1 DEF OutboxTypeOK
  <2>3. \A m \in Batch[r] : Follows(r, m)'
    BY <1>f, <1>5, <2>1, <2>2 DEF Begin, Follows, Early, Late, tables
  <2>4. QED
    BY <1>g, <2>1, <2>3
<1>6. ASSUME NEW r \in Requests, EndTransaction(r) PROVE OutboxInv'
  <2>1. Others(r)
    BY <1>t, <1>d, <1>6 DEF Others, EndTransaction, vars, tables, Goto, Fault, Strike, OutboxTypeOK, Kept
  <2>2. /\ jobs' = jobs /\ tasks' = tasks /\ struck' = struck /\ work' = work
        /\ pc'[r] = (IF MustFail(r) THEN "failed" ELSE "scheduling")
        /\ messages' = messages \union Kept(r) /\ draft' = draft \ Batch[r]
    BY <1>t, <1>6 DEF EndTransaction, vars, tables, Goto, Fault, Strike, OutboxTypeOK
  <2>3. CASE MustFail(r)
    <3>1. Kept(r) = {}
      BY <2>3 DEF Kept
    <3>2. \A m \in Batch[r] : Follows(r, m)'
      BY <1>f, <1>6, <2>2, <2>3, <3>1 DEF EndTransaction, Follows, Early, Late
    <3>3. QED
      BY <1>t, <1>f, <2>1, <2>2, <2>3, <3>1, <3>2, OneFollows
  <2>4. CASE ~ MustFail(r)
    <3>1. \A m \in Batch[r] : work[m] = "created" /\ m \in Kept(r) /\ m \notin jobs
      BY <1>f, <1>6, <2>4 DEF EndTransaction, Follows, Early, Kept, MustFail
    <3>2. \A m \in Batch[r] : Follows(r, m)'
      BY <2>2, <2>4, <3>1 DEF Follows, Early, Late
    <3>3. QED
      BY <1>t, <1>f, <2>1, <2>2, <2>4, <3>2, OneFollows
  <2>5. QED
    BY <2>3, <2>4
<1>7. ASSUME NEW r \in Requests, TransactionFails(r) PROVE OutboxInv'
  <2>1. Others(r)
    BY <1>t, <1>d, <1>7 DEF Others, TransactionFails, vars, tables, Goto, Fault, Strike, OutboxTypeOK, Kept
  <2>2. /\ jobs' = jobs /\ tasks' = tasks /\ work' = work /\ draft' = draft \ Batch[r] /\ pc[r] = "creating"
        /\ \/ pc'[r] = "failed" /\ messages' = messages
           \/ pc'[r] = "unwinding" /\ messages' = messages \union Kept(r) /\ r \in struck'
    BY <1>t, <1>7 DEF TransactionFails, vars, tables, Goto, Fault, Strike, OutboxTypeOK
  <2>3. \A m \in Batch[r] : Follows(r, m)'
    BY <1>f, <2>2 DEF Follows, Early, Late
  <2>4. QED
    BY <1>t, <1>f, <2>1, <2>2, <2>3, OneFollows
<1>8. ASSUME NEW r \in Requests, LogScheduling(r) PROVE OutboxInv'
  <2> DEFINE s == "inserting"
  <2>1. pc' = [pc EXCEPT ![r] = s] /\ UNCHANGED <<work, draft, tables, struck>>
    BY <1>8 DEF LogScheduling, vars, tables, Goto, Fault, Strike
  <2>2. pc'[r] = s
    BY <1>t, <2>1 DEF OutboxTypeOK
  <2>3. \A m \in Batch[r] : Follows(r, m)'
    BY <1>f, <1>8, <2>1, <2>2 DEF LogScheduling, Follows, Early, Late, tables
  <2>4. s \in {"excusing", "unwinding"} => r \in struck
    BY <1>f, <1>8 DEF LogScheduling
  <2>5. QED
    BY <1>g, <2>1, <2>3, <2>4
<1>9. ASSUME NEW r \in Requests, InsertJobs(r) PROVE OutboxInv'
  <2>1. Others(r)
    BY <1>t, <1>d, <1>9 DEF Others, InsertJobs, vars, tables, Goto, Fault, Strike, OutboxTypeOK, Created
  <2>2. \A m \in Batch[r] : work[m] = "created" /\ m \in messages
    BY <1>f, <1>9 DEF InsertJobs, Follows, Late
  <2>3. Created(r) = Batch[r]
    BY <2>2 DEF Created
  <2>4. /\ messages' = messages /\ tasks' = tasks /\ struck' = struck /\ work' = work /\ draft' = draft
        /\ jobs' = jobs \union Batch[r] /\ pc'[r] = "calling"
    BY <1>t, <1>9, <2>3 DEF InsertJobs, vars, tables, Goto, Fault, Strike, OutboxTypeOK
  <2>5. \A m \in Batch[r] : Follows(r, m)'
    BY <1>f, <1>9, <2>2, <2>4 DEF InsertJobs, Follows, Early, Late
  <2>6. QED
    BY <1>t, <1>f, <2>1, <2>2, <2>4, <2>5, OneFollows
<1>10. ASSUME NEW r \in Requests, InsertJobsFails(r) PROVE OutboxInv'
  <2>1. Others(r)
    BY <1>t, <1>d, <1>10 DEF Others, InsertJobsFails, vars, tables, Goto, Fault, Strike, OutboxTypeOK
  <2>2. /\ messages' = messages /\ jobs' = jobs /\ tasks' = tasks /\ work' = work /\ draft' = draft
        /\ pc'[r] = "excusing" /\ r \in struck'
    BY <1>t, <1>10 DEF InsertJobsFails, vars, tables, Goto, Fault, Strike, OutboxTypeOK
  <2>3. \A m \in Batch[r] : Follows(r, m)'
    BY <1>f, <1>10, <2>2 DEF InsertJobsFails, Follows, Early, Late
  <2>4. QED
    BY <1>t, <1>f, <2>1, <2>2, <2>3, OneFollows
<1>11. ASSUME NEW r \in Requests, CallScheduler(r) PROVE OutboxInv'
  <2>1. \A m \in Batch[r] : work[m] = "created" /\ m \in messages /\ m \in jobs
    BY <1>f, <1>11 DEF CallScheduler, Follows, Late
  <2>2. Created(r) = Batch[r]
    BY <2>1 DEF Created
  <2>3. /\ messages' = messages /\ jobs' = jobs /\ work' = work /\ draft' = draft
        /\ tasks' \in {tasks, tasks \union Batch[r]}
        /\ \/ pc' = [pc EXCEPT ![r] = "marking"] /\ tasks' = tasks \union Batch[r] /\ struck' = struck
           \/ pc' = [pc EXCEPT ![r] = "excusing"] /\ struck' = struck \union {r}
    BY <1>11, <2>2 DEF CallScheduler, Heard, Goto, Strike
  <2>4. Others(r)
    BY <1>t, <1>d, <2>3 DEF Others, OutboxTypeOK
  <2>5. \/ pc'[r] = "marking" /\ tasks' = tasks \union Batch[r]
        \/ pc'[r] = "excusing" /\ r \in struck'
    BY <1>t, <2>3 DEF OutboxTypeOK
  <2>6. \A m \in Batch[r] : Follows(r, m)'
    BY <1>f, <1>11, <2>1, <2>3, <2>5 DEF CallScheduler, Follows, Early, Late
  <2>7. QED
    BY <1>t, <1>f, <2>1, <2>3, <2>4, <2>5, <2>6, OneFollows
<1>12. ASSUME NEW r \in Requests, LogFailure(r) PROVE OutboxInv'
  <2> DEFINE s == "unwinding"
  <2>1. pc' = [pc EXCEPT ![r] = s] /\ UNCHANGED <<work, draft, tables, struck>>
    BY <1>12 DEF LogFailure, vars, tables, Goto, Fault, Strike
  <2>2. pc'[r] = s
    BY <1>t, <2>1 DEF OutboxTypeOK
  <2>3. \A m \in Batch[r] : Follows(r, m)'
    BY <1>f, <1>12, <2>1, <2>2 DEF LogFailure, Follows, Early, Late, tables
  <2>4. s \in {"excusing", "unwinding"} => r \in struck
    BY <1>f, <1>12 DEF LogFailure
  <2>5. QED
    BY <1>g, <2>1, <2>3, <2>4
<1>13. ASSUME NEW r \in Requests, Unwind(r) PROVE OutboxInv'
  <2> DEFINE s == "failed"
  <2>1. pc' = [pc EXCEPT ![r] = s] /\ UNCHANGED <<work, draft, tables, struck>>
    BY <1>13 DEF Unwind, vars, tables, Goto, Fault, Strike
  <2>2. pc'[r] = s
    BY <1>t, <2>1 DEF OutboxTypeOK
  <2>3. \A m \in Batch[r] : Follows(r, m)'
    BY <1>f, <1>13, <2>1, <2>2 DEF Unwind, Follows, Early, Late, tables
  <2>4. s \in {"excusing", "unwinding"} => r \in struck
    BY <1>f, <1>13 DEF Unwind
  <2>5. QED
    BY <1>g, <2>1, <2>3, <2>4
<1>14. ASSUME NEW r \in Requests, Finish(r) PROVE OutboxInv'
  <2> DEFINE s == "ok"
  <2>1. pc' = [pc EXCEPT ![r] = s] /\ UNCHANGED <<work, draft, tables, struck>>
    BY <1>14 DEF Finish, vars, tables, Goto, Fault, Strike
  <2>2. pc'[r] = s
    BY <1>t, <2>1 DEF OutboxTypeOK
  <2>3. \A m \in Batch[r] : Follows(r, m)'
    BY <1>f, <1>14, <2>1, <2>2 DEF Finish, Follows, Early, Late, tables
  <2>4. s \in {"excusing", "unwinding"} => r \in struck
    BY <1>f, <1>14 DEF Finish
  <2>5. QED
    BY <1>g, <2>1, <2>3, <2>4
<1>15. ASSUME NEW r \in Requests, OuterFails(r) PROVE OutboxInv'
  <2>1. Others(r)
    BY <1>t, <1>d, <1>15 DEF Others, OuterFails, vars, tables, Goto, Fault, Strike, OutboxTypeOK
  <2>2. /\ messages' = messages /\ jobs' = jobs /\ tasks' = tasks /\ work' = work /\ draft' = draft
        /\ pc'[r] = "failed" /\ (pc[r] = "asking" \/ (pc[r] = "marking" /\ r \in struck'))
    <3>1. /\ messages' = messages /\ jobs' = jobs /\ tasks' = tasks /\ work' = work /\ draft' = draft
          /\ pc' = [pc EXCEPT ![r] = "failed"]
      BY <1>15 DEF OuterFails, tables, Goto
    <3>2. pc[r] = "asking" \/ (pc[r] = "marking" /\ r \in struck')
      <4>1. CASE pc[r] = "asking"
        BY <4>1
      <4>2. CASE pc[r] = "marking"
        BY <1>15, <4>2 DEF OuterFails, Strike
      <4>3. QED
        BY <1>15, <4>1, <4>2 DEF OuterFails
    <3>3. QED
      BY <1>t, <3>1, <3>2 DEF OutboxTypeOK
  <2>3. \A m \in Batch[r] : Follows(r, m)'
    BY <1>f, <2>2 DEF Follows, Early, Late
  <2>4. QED
    BY <1>t, <1>f, <2>1, <2>2, <2>3, OneFollows
<1>16. ASSUME NEW r \in Requests, NEW m \in Messages, InsertMessage(r, m) PROVE OutboxInv'
  <2>1. Others(r)
    BY <1>t, <1>d, <1>16 DEF Others, InsertMessage, vars, tables, Goto, Fault, Strike, OutboxTypeOK
  <2>2. /\ pc' = pc /\ messages' = messages /\ jobs' = jobs /\ tasks' = tasks /\ struck' = struck
        /\ \A l \in Batch[r] : work'[l] = (IF l = m THEN "inserted" ELSE work[l]) /\ (l \in draft' <=> l = m \/ l \in draft)
    BY <1>t, <1>b, <1>16 DEF InsertMessage, vars, tables, Goto, Fault, Strike, OutboxTypeOK
  <2>3. MustFail(r)' <=> MustFail(r)
    BY <1>16, <2>2 DEF InsertMessage, MustFail
  <2>4. \A l \in Batch[r] : Follows(r, l)'
    BY <1>f, <1>16, <2>2, <2>3 DEF InsertMessage, Follows, Early, Late
  <2>5. QED
    BY <1>t, <1>f, <2>1, <2>2, <2>4, OneFollows
<1>17. ASSUME NEW r \in Requests, NEW m \in Messages, CreationFails(r, m) PROVE OutboxInv'
  <2>1. Others(r)
    BY <1>t, <1>d, <1>17 DEF Others, CreationFails, vars, tables, Goto, Fault, Strike, OutboxTypeOK
  <2>2. /\ pc' = pc /\ messages' = messages /\ jobs' = jobs /\ tasks' = tasks /\ struck' = struck
        /\ work'[m] = "failed"
    BY <1>t, <1>b, <1>17 DEF CreationFails, vars, tables, Goto, Fault, Strike, OutboxTypeOK
  <2>3. MustFail(r)' /\ pc[r] = "creating"
    BY <1>17, <2>2 DEF CreationFails, MustFail
  <2>4. \A l \in Batch[r] : Follows(r, l)'
    BY <1>f, <2>2, <2>3 DEF Follows, Early, Late
  <2>5. QED
    BY <1>t, <1>f, <2>1, <2>2, <2>4, OneFollows
<1>18. ASSUME NEW r \in Requests, NEW m \in Messages, LogCreation(r, m) PROVE OutboxInv'
  <2>1. Others(r)
    BY <1>t, <1>d, <1>18 DEF Others, LogCreation, vars, tables, Goto, Fault, Strike, OutboxTypeOK
  <2>2. /\ pc' = pc /\ messages' = messages /\ jobs' = jobs /\ tasks' = tasks /\ struck' = struck /\ draft' = draft
        /\ \A l \in Batch[r] : work'[l] = (IF l = m THEN "created" ELSE work[l])
    BY <1>t, <1>b, <1>18 DEF LogCreation, vars, tables, Goto, Fault, Strike, OutboxTypeOK
  <2>3. MustFail(r)' <=> MustFail(r)
    BY <1>18, <2>2 DEF LogCreation, MustFail
  <2>4. \A l \in Batch[r] : Follows(r, l)'
    BY <1>f, <1>18, <2>2, <2>3 DEF LogCreation, Follows, Early, Late
  <2>5. QED
    BY <1>t, <1>f, <2>1, <2>2, <2>4, OneFollows
<1>19. ASSUME Crash PROVE OutboxInv'
  <2>1. /\ messages' = messages /\ jobs' = jobs /\ tasks' = tasks /\ work' = work /\ draft' = {}
        /\ struck \subseteq struck'
    BY <1>19 DEF Crash, vars, tables, Goto, Fault, Strike
  <2>2. \A r \in Requests :
          \/ pc'[r] = pc[r] /\ pc[r] \notin Open \union {"outer"}
          \/ pc'[r] = "cut" /\ pc[r] \in Open \union {"outer"} /\ (pc[r] \in Late => r \in struck')
    BY <1>19 DEF Crash
  <2>3. \A r \in Requests : \A m \in Batch[r] : Follows(r, m)'
    <3> SUFFICES ASSUME NEW r \in Requests, NEW m \in Batch[r] PROVE Follows(r, m)'
      OBVIOUS
    <3>1. CASE pc'[r] = "cut" /\ pc[r] \in Open \union {"outer"} /\ (pc[r] \in Late => r \in struck')
      <4>1. pc[r] \in Early \union {"creating"} \/ pc[r] \in Late
        BY <3>1 DEF Open, Connected, Early, Late
      <4>2. QED
        BY <1>f, <2>1, <3>1, <4>1 DEF Follows, Early, Late
    <3>2. CASE pc'[r] = pc[r] /\ pc[r] \notin Open \union {"outer"}
      <4>1. pc[r] # "creating" /\ pc[r] \notin Late
        BY <3>2 DEF Open, Connected, Late
      <4>2. QED
        BY <1>f, <2>1, <3>2, <4>1 DEF Follows, Early, Late
    <3>3. QED
      BY <2>2, <3>1, <3>2
  <2>4. \A r \in Requests : pc'[r] \in {"excusing", "unwinding"} => r \in struck'
    BY <1>f, <2>1, <2>2
  <2>5. QED
    BY <1>t, <1>f, <2>1, <2>3, <2>4 DEF OutboxInv
<1>20. CASE UNCHANGED vars
  <2>1. \A r \in Requests : \A m \in Batch[r] : Follows(r, m)'
    BY <1>f, <1>20 DEF Follows, MustFail, vars, tables
  <2>2. QED
    BY <1>t, <1>f, <1>20, <2>1 DEF OutboxInv, vars, tables
<1>21. QED BY <1>1, <1>2, <1>3, <1>4, <1>5, <1>6, <1>7, <1>8, <1>9, <1>10, <1>11, <1>12, <1>13, <1>14, <1>15, <1>16, <1>17, <1>18, <1>19, <1>20 DEF OutboxNext, Step

\* The inductive invariant holds.
LEMMA OutboxInvHolds == OutboxSpec => []OutboxInv
  BY OutboxInvInit, OutboxInvStep, PTL DEF OutboxSpec

\* Every variable keeps its type: a request is always at a place that the code
\* has, and no table holds anything but messages.
THEOREM OutboxTypeCorrect == OutboxSpec => []OutboxTypeOK
  BY OutboxInvHolds, PTL DEF OutboxInv

\* A request that fails before its commit leaves no message, no job and no
\* task, and nothing is delivered that is not stored, however many requests
\* there are and wherever they fail.
THEOREM FailureLeavesNothingCorrect == OutboxSpec => []FailureLeavesNothing
<1>1. OutboxInv => FailureLeavesNothing
  BY DEF OutboxInv, Follows, FailureLeavesNothing
<1>2. QED
  BY <1>1, OutboxInvHolds, PTL

-----------------------------------------------------------------------------
(* Requests keep the promise of Submission.                                *)

Ended == {"ok", "failed", "cut"}

\* What the callers of the others see does not change.
LEMMA OthersUnseen ==
  ASSUME NEW r \in Requests, Others(r), NEW s \in Requests \ {r}
  PROVE  /\ pc'[s] = pc[s]
         /\ (Batch[s] \intersect messages' # {}) <=> (Batch[s] \intersect messages # {})
         /\ (Batch[s] \subseteq tasks') <=> (Batch[s] \subseteq tasks)
  BY DEF Others

\* Nobody sends nothing.
LEMMA BatchesExist == \A r \in Requests : Batch[r] # {}
  OBVIOUS

LEMMA Unseen ==
  ASSUME NEW r \in Requests, Others(r), pc[r] \notin Ended, pc'[r] \notin Ended,
         messages' = messages, tasks' = tasks
  PROVE  UNCHANGED Promise!submissionVars
  BY OthersUnseen DEF Promise!submissionVars, Ended

LEMMA Stores ==
  ASSUME NEW r \in Requests, Others(r), pc[r] \notin Ended, pc'[r] \notin Ended, tasks' = tasks,
         Batch[r] \intersect messages = {}, Batch[r] \subseteq messages'
  PROVE  Promise!SubmissionNext
<1>1. Promise!Store(r)
  BY OthersUnseen, BatchesExist DEF Promise!Store, Ended
<1>2. QED
  BY <1>1 DEF Promise!SubmissionNext

LEMMA Hands ==
  ASSUME NEW r \in Requests, Others(r), pc[r] \notin Ended, pc'[r] \notin Ended, messages' = messages,
         Batch[r] \subseteq messages, Batch[r] \subseteq tasks'
  PROVE  Promise!SubmissionNext
<1>1. Promise!Hand(r)
  BY OthersUnseen DEF Promise!Hand, Ended
<1>2. QED
  BY <1>1 DEF Promise!SubmissionNext

LEMMA Fails ==
  ASSUME NEW r \in Requests, Others(r), pc[r] \notin Ended, pc'[r] = "failed",
         messages' = messages, tasks' = tasks
  PROVE  Promise!SubmissionNext
<1>1. Promise!Fail({r})
  BY OthersUnseen DEF Promise!Fail, Ended
<1>2. QED
  BY <1>1 DEF Promise!SubmissionNext

LEMMA PromiseInit == OutboxInit => Promise!SubmissionInit
  BY BatchesExist DEF OutboxInit, Promise!SubmissionInit

LEMMA PromiseStep == OutboxInv /\ [OutboxNext]_vars => [Promise!SubmissionNext]_Promise!submissionVars
<1> DEFINE Promised == Promise!SubmissionNext \/ UNCHANGED Promise!submissionVars
<1> SUFFICES ASSUME OutboxInv, [OutboxNext]_vars PROVE Promised
  OBVIOUS
<1> HIDE DEF Promised
<1>n. Promise!SubmissionNext => Promised
  BY DEF Promised
<1>u. (UNCHANGED Promise!submissionVars) => Promised
  BY DEF Promised
<1>t. OutboxTypeOK
  BY DEF OutboxInv
<1>d. \A r \in Requests : \A s \in Requests \ {r} : \A m \in Batch[s] : m \in Messages /\ m \notin Batch[r]
  OBVIOUS
<1>f. \A r \in Requests : \A m \in Batch[r] : Follows(r, m)
  BY DEF OutboxInv
<1>1. ASSUME NEW r \in Requests, Arrive(r) PROVE Promised
  <2>1. Others(r)
    BY <1>t, <1>d, <1>1 DEF Others, Arrive, vars, tables, Goto, Fault, Strike, OutboxTypeOK, Kept, Created
  <2>2. pc[r] \notin Ended /\ pc'[r] \notin Ended /\ messages' = messages /\ tasks' = tasks
    BY <1>t, <1>1 DEF Arrive, tables, Goto, OutboxTypeOK, Ended
  <2>3. QED
    BY <1>u, <2>1, <2>2, Unseen
<1>2. ASSUME NEW r \in Requests, ConnectOuter(r) PROVE Promised
  <2>1. Others(r)
    BY <1>t, <1>d, <1>2 DEF Others, ConnectOuter, vars, tables, Goto, Fault, Strike, OutboxTypeOK, Kept, Created
  <2>2. pc[r] \notin Ended /\ pc'[r] \notin Ended /\ messages' = messages /\ tasks' = tasks
    BY <1>t, <1>2 DEF ConnectOuter, tables, Goto, OutboxTypeOK, Ended
  <2>3. QED
    BY <1>u, <2>1, <2>2, Unseen
<1>3. ASSUME NEW r \in Requests, Connect(r) PROVE Promised
  <2>1. Others(r)
    BY <1>t, <1>d, <1>3 DEF Others, Connect, vars, tables, Goto, Fault, Strike, OutboxTypeOK, Kept, Created
  <2>2. pc[r] \notin Ended /\ pc'[r] \notin Ended /\ messages' = messages /\ tasks' = tasks
    BY <1>t, <1>3 DEF Connect, tables, Goto, OutboxTypeOK, Ended
  <2>3. QED
    BY <1>u, <2>1, <2>2, Unseen
<1>4. ASSUME NEW r \in Requests, Refuse(r) PROVE Promised
  <2>1. Others(r)
    BY <1>t, <1>d, <1>4 DEF Others, Refuse, vars, tables, Goto, Fault, Strike, OutboxTypeOK, Kept, Created
  <2>2. pc[r] \notin Ended /\ pc'[r] = "failed" /\ messages' = messages /\ tasks' = tasks
    BY <1>t, <1>4 DEF Refuse, tables, Goto, OutboxTypeOK, Ended
  <2>3. QED
    BY <1>n, <2>1, <2>2, Fails
<1>5. ASSUME NEW r \in Requests, Begin(r) PROVE Promised
  <2>1. Others(r)
    BY <1>t, <1>d, <1>5 DEF Others, Begin, vars, tables, Goto, Fault, Strike, OutboxTypeOK, Kept, Created
  <2>2. pc[r] \notin Ended /\ pc'[r] \notin Ended /\ messages' = messages /\ tasks' = tasks
    BY <1>t, <1>5 DEF Begin, tables, Goto, OutboxTypeOK, Ended
  <2>3. QED
    BY <1>u, <2>1, <2>2, Unseen
<1>6. ASSUME NEW r \in Requests, EndTransaction(r) PROVE Promised
  <2>1. Others(r)
    BY <1>t, <1>d, <1>6 DEF Others, EndTransaction, vars, tables, Goto, Fault, Strike, OutboxTypeOK, Kept, Created
  <2>2. pc[r] = "creating" /\ tasks' = tasks /\ messages' = messages \union Kept(r)
    BY <1>6 DEF EndTransaction
  <2>3. pc'[r] = (IF MustFail(r) THEN "failed" ELSE "scheduling")
    BY <1>t, <1>6 DEF EndTransaction, Goto, OutboxTypeOK
  <2>4. CASE MustFail(r)
    <3>1. messages' = messages /\ pc'[r] = "failed"
      BY <2>2, <2>3, <2>4 DEF Kept
    <3>2. QED
      BY <1>n, <2>1, <2>2, <3>1, Fails DEF Ended
  <2>5. CASE ~ MustFail(r)
    <3>1. Batch[r] \subseteq Kept(r) /\ Batch[r] \intersect messages = {}
      BY <1>f, <1>6, <2>5 DEF EndTransaction, Follows, Kept, MustFail
    <3>2. QED
      BY <1>n, <2>1, <2>2, <2>3, <2>5, <3>1, Stores DEF Ended
  <2>6. QED
    BY <2>4, <2>5
<1>7. ASSUME NEW r \in Requests, TransactionFails(r) PROVE Promised
  <2>1. Others(r)
    BY <1>t, <1>d, <1>7 DEF Others, TransactionFails, vars, tables, Goto, Fault, Strike, OutboxTypeOK, Kept, Created
  <2>2. /\ pc[r] = "creating" /\ tasks' = tasks
        /\ \/ pc'[r] = "failed" /\ messages' = messages
           \/ /\ pc'[r] = "unwinding" /\ messages' = messages \union Kept(r)
              /\ Batch[r] = Created(r)
    BY <1>t, <1>7 DEF TransactionFails, Goto, OutboxTypeOK
  <2>3. CASE pc'[r] = "failed" /\ messages' = messages
    BY <1>n, <2>1, <2>2, <2>3, Fails DEF Ended
  <2>4. CASE pc'[r] = "unwinding" /\ messages' = messages \union Kept(r) /\ Batch[r] = Created(r)
    <3>1. \A m \in Batch[r] : work[m] = "created"
      BY <2>4 DEF Created
    <3>2. Batch[r] \subseteq Kept(r) /\ Batch[r] \intersect messages = {}
      BY <1>f, <2>2, <3>1 DEF Follows, Kept, MustFail
    <3>3. QED
      BY <1>n, <2>1, <2>2, <2>4, <3>2, Stores DEF Ended
  <2>5. QED
    BY <2>2, <2>3, <2>4
<1>8. ASSUME NEW r \in Requests, LogScheduling(r) PROVE Promised
  <2>1. Others(r)
    BY <1>t, <1>d, <1>8 DEF Others, LogScheduling, vars, tables, Goto, Fault, Strike, OutboxTypeOK, Kept, Created
  <2>2. pc[r] \notin Ended /\ pc'[r] \notin Ended /\ messages' = messages /\ tasks' = tasks
    BY <1>t, <1>8 DEF LogScheduling, tables, Goto, OutboxTypeOK, Ended
  <2>3. QED
    BY <1>u, <2>1, <2>2, Unseen
<1>9. ASSUME NEW r \in Requests, InsertJobs(r) PROVE Promised
  <2>1. Others(r)
    BY <1>t, <1>d, <1>9 DEF Others, InsertJobs, vars, tables, Goto, Fault, Strike, OutboxTypeOK, Kept, Created
  <2>2. pc[r] \notin Ended /\ pc'[r] \notin Ended /\ messages' = messages /\ tasks' = tasks
    BY <1>t, <1>9 DEF InsertJobs, tables, Goto, OutboxTypeOK, Ended
  <2>3. QED
    BY <1>u, <2>1, <2>2, Unseen
<1>10. ASSUME NEW r \in Requests, InsertJobsFails(r) PROVE Promised
  <2>1. Others(r)
    BY <1>t, <1>d, <1>10 DEF Others, InsertJobsFails, vars, tables, Goto, Fault, Strike, OutboxTypeOK, Kept, Created
  <2>2. pc[r] \notin Ended /\ pc'[r] \notin Ended /\ messages' = messages /\ tasks' = tasks
    BY <1>t, <1>10 DEF InsertJobsFails, tables, Goto, OutboxTypeOK, Ended
  <2>3. QED
    BY <1>u, <2>1, <2>2, Unseen
<1>11. ASSUME NEW r \in Requests, CallScheduler(r) PROVE Promised
  <2>1. \A m \in Batch[r] : work[m] = "created" /\ m \in messages
    BY <1>f, <1>11 DEF CallScheduler, Follows, Late
  <2>2. Created(r) = Batch[r]
    BY <2>1 DEF Created
  <2>3. /\ messages' = messages /\ work' = work /\ draft' = draft /\ jobs' = jobs /\ struck \subseteq struck'
        /\ tasks' \in {tasks, tasks \union Batch[r]}
        /\ \E to \in {"marking", "excusing"} : pc' = [pc EXCEPT ![r] = to]
    BY <1>11, <2>2 DEF CallScheduler, Goto, Strike, Heard
  <2>4. Others(r)
    BY <1>t, <1>d, <2>3 DEF Others, OutboxTypeOK
  <2>5. pc[r] \notin Ended /\ pc'[r] \notin Ended
    BY <1>t, <1>11, <2>3 DEF CallScheduler, OutboxTypeOK, Ended
  <2>6. CASE tasks' = tasks
    BY <1>u, <2>3, <2>4, <2>5, <2>6, Unseen
  <2>7. CASE tasks' = tasks \union Batch[r]
    BY <1>n, <2>1, <2>3, <2>4, <2>5, <2>7, Hands
  <2>8. QED
    BY <2>3, <2>6, <2>7
<1>12. ASSUME NEW r \in Requests, LogFailure(r) PROVE Promised
  <2>1. Others(r)
    BY <1>t, <1>d, <1>12 DEF Others, LogFailure, vars, tables, Goto, Fault, Strike, OutboxTypeOK, Kept, Created
  <2>2. pc[r] \notin Ended /\ pc'[r] \notin Ended /\ messages' = messages /\ tasks' = tasks
    BY <1>t, <1>12 DEF LogFailure, tables, Goto, OutboxTypeOK, Ended
  <2>3. QED
    BY <1>u, <2>1, <2>2, Unseen
<1>13. ASSUME NEW r \in Requests, Unwind(r) PROVE Promised
  <2>1. Others(r)
    BY <1>t, <1>d, <1>13 DEF Others, Unwind, vars, tables, Goto, Fault, Strike, OutboxTypeOK, Kept, Created
  <2>2. pc[r] \notin Ended /\ pc'[r] = "failed" /\ messages' = messages /\ tasks' = tasks
    BY <1>t, <1>13 DEF Unwind, tables, Goto, OutboxTypeOK, Ended
  <2>3. QED
    BY <1>n, <2>1, <2>2, Fails
<1>14. ASSUME NEW r \in Requests, Finish(r) PROVE Promised
  <2>1. Others(r)
    BY <1>t, <1>d, <1>14 DEF Others, Finish, vars, tables, Goto, Fault, Strike, OutboxTypeOK, Kept, Created
  <2>2. pc[r] = "marking" /\ pc'[r] = "ok" /\ messages' = messages /\ tasks' = tasks
    BY <1>t, <1>14 DEF Finish, tables, Goto, OutboxTypeOK
  <2>3. Batch[r] \subseteq tasks
    BY <1>f, <2>2 DEF Follows
  <2>4. Promise!Accept(r)
    BY <2>1, <2>2, <2>3, OthersUnseen DEF Promise!Accept
  <2>5. QED
    BY <1>n, <2>4 DEF Promise!SubmissionNext
<1>15. ASSUME NEW r \in Requests, OuterFails(r) PROVE Promised
  <2>1. Others(r)
    BY <1>t, <1>d, <1>15 DEF Others, OuterFails, vars, tables, Goto, Fault, Strike, OutboxTypeOK, Kept, Created
  <2>2. pc[r] \notin Ended /\ pc'[r] = "failed" /\ messages' = messages /\ tasks' = tasks
    BY <1>t, <1>15 DEF OuterFails, tables, Goto, OutboxTypeOK, Ended
  <2>3. QED
    BY <1>n, <2>1, <2>2, Fails
<1>16. ASSUME NEW r \in Requests, NEW m \in Messages, InsertMessage(r, m) PROVE Promised
  <2>1. UNCHANGED <<pc, messages, tasks>>
    BY <1>16 DEF InsertMessage, tables
  <2>2. QED
    BY <1>u, <2>1 DEF Promise!submissionVars
<1>17. ASSUME NEW r \in Requests, NEW m \in Messages, CreationFails(r, m) PROVE Promised
  <2>1. UNCHANGED <<pc, messages, tasks>>
    BY <1>17 DEF CreationFails, tables
  <2>2. QED
    BY <1>u, <2>1 DEF Promise!submissionVars
<1>18. ASSUME NEW r \in Requests, NEW m \in Messages, LogCreation(r, m) PROVE Promised
  <2>1. UNCHANGED <<pc, messages, tasks>>
    BY <1>18 DEF LogCreation, tables
  <2>2. QED
    BY <1>u, <2>1 DEF Promise!submissionVars
<1>19. CASE Crash
  <2>1. PICK S \in SUBSET Requests : S = {r \in Requests : pc[r] \in Open \union {"outer"}}
    OBVIOUS
  <2>2. /\ messages' = messages /\ tasks' = tasks
        /\ \A r \in Requests : pc'[r] = (IF r \in S THEN "cut" ELSE pc[r])
    BY <1>19, <2>1 DEF Crash, tables
  <2>3. \A r \in S : pc[r] \notin Ended
    BY <2>1 DEF Open, Connected, Late, Ended
  <2>4. Promise!Fail(S)
    BY <2>2, <2>3 DEF Promise!Fail, Ended
  <2>5. Promise!SubmissionNext
    BY <2>4 DEF Promise!SubmissionNext
  <2>6. QED
    BY <1>n, <2>5
<1>20. CASE UNCHANGED vars
  BY <1>u, <1>20 DEF vars, tables, Promise!submissionVars
<1>21. QED
  <2>1. Promised
    BY <1>1, <1>2, <1>3, <1>4, <1>5, <1>6, <1>7, <1>8, <1>9, <1>10, <1>11, <1>12, <1>13, <1>14, <1>15, <1>16, <1>17, <1>18, <1>19, <1>20 DEF OutboxNext, Step
  <2>2. QED
    BY <2>1 DEF Promised

\* Every behaviour of the requests, with whatever fails and crashes, is one of
\* Submission: "ok" is answered only when every message has its task.
THEOREM SubmissionKeptCorrect == OutboxSpec => SubmissionKept
  BY PromiseInit, PromiseStep, OutboxInvHolds, PTL
     DEF OutboxSpec, SubmissionKept, Promise!SubmissionSpec

-----------------------------------------------------------------------------
(* Where the pool can bring the process to a stop.                         *)

\* The next step of request r has all it needs.
Ready(r) ==
  \/ pc[r] \in {"checking", "inserting", "calling", "unwinding", "marking"}
  \/ pc[r] = "creating" /\ \E m \in Batch[r] : work[m] = "todo"
  \/ pc[r] = "creating" /\ \A m \in Batch[r] : work[m] \in {"created", "failed"}
  \/ Free /\ pc[r] \notin {"idle"} \union Ended

\* As long as a request is unanswered, one of them can go on, unless every
\* connection is held by a request that waits for another one.
StopsOnlyWedged ==
  \A r \in Requests : pc[r] \notin {"idle"} \union Ended =>
    Wedged \/ \E q \in Requests : Ready(q)

\* The only way to a standstill is the pool waiting for itself: requests wait
\* for one another in no other way, transactions included.
THEOREM StopsOnlyWedgedCorrect == OutboxSpec => []StopsOnlyWedged
<1>1. ASSUME OutboxTypeOK, NEW r \in Requests, pc[r] \notin {"idle"} \union Ended,
             ~ \E q \in Requests : Ready(q)
      PROVE  Wedged
  <2>1. InUse >= PoolMax
    <3>1. ~ Free
      BY <1>1 DEF Ready
    <3>2. /\ Cardinality({q \in Requests : pc[q] \in Connected}) \in Nat
          /\ Cardinality({q \in Invitations : pc[q] \in Open}) \in Nat
      BY FS_Subset, FS_CardinalityType
    <3> QED
      BY <3>1, <3>2 DEF Free, InUse
  <2>2. ASSUME NEW q \in Requests, pc[q] \in Connected \/ (q \in Invitations /\ pc[q] \in Open)
        PROVE  Waits(q)
    <3>1. pc[q] \in {"scheduling", "excusing", "creating"} \/ (pc[q] = "asking" /\ q \in Invitations)
      BY <1>1, <2>2 DEF Ready, Open, Connected, Late
    <3>2. CASE pc[q] = "creating"
      <4>1. \A m \in Batch[q] : work[m] \in {"todo", "inserted", "created", "failed"}
        BY <1>1 DEF OutboxTypeOK
      <4> QED
        BY <1>1, <3>2, <4>1 DEF Ready, Waits
    <3> QED
      BY <3>1, <3>2 DEF Waits
  <2> QED
    BY <2>1, <2>2 DEF Wedged
<1>2. OutboxTypeOK => StopsOnlyWedged
  BY <1>1 DEF StopsOnlyWedged
<1> QED
  BY <1>2, OutboxTypeCorrect, PTL
=============================================================================
