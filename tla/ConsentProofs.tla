--------------------------- MODULE ConsentProofs ---------------------------
(***************************************************************************)
(* What holds of a person and their settings for any number of             *)
(* organisations, imports, answers and messages.                           *)
(*                                                                         *)
(* The argument goes along the request that wrote a row: it keeps the      *)
(* name of the row, the organisation and its decision until it is over, so *)
(* a row that still waits for something names the import that owes it.     *)
(* Imports that do not overlap pass a turn from one to the next, so each   *)
(* finds the rows and the marks as the one before it left them.            *)
(***************************************************************************)
EXTENDS Consent, TLAPS

\* A request that has begun names a row and an organisation, and a message is
\* committed at its own place in the request and nowhere else.
Placed ==
  /\ \A i \in Imports : pc[i] \notin {"idle", "skipped"} =>
       row[i] \in Rows /\ org[i] \in Orgs
  /\ \A f \in Feedbacks : pc[f] # "idle" =>
       /\ target[f] \in Rows
       /\ org[f] \in Orgs
       /\ setting[target[f]][org[f]] # "none"
  /\ \A f \in Feedbacks : pc[f] \in {"idle", "activated"} => row[f] = Nobody
  /\ \A f \in Feedbacks : pc[f] = "checked" => answer[f] # "accepted_nowhere"
  /\ \A s \in Sends : pc[s] # "idle" => row[s] \in Rows
  /\ \A s \in Sends \intersect mailed : pc[s] = "sent"
  /\ \A i \in Imports \intersect mailed : pc[i] \in {"created", "done", "cut"}
  /\ \A i \in Imports : pc[i] = "created" => i \in mailed

\* A row has a setting as soon as it exists: the import commits both at once.
RowsComplete ==
  /\ \A r \in Rows :
       status[r] # "absent" <=> \E o \in Orgs : setting[r][o] # "none"
  /\ linked \subseteq Present
  /\ \A i \in Imports : pc[i] \in Stored => row[i] \in Present

\* A row says what the record of the import that wrote it last said.
RowsWritten ==
  /\ \A r \in Rows \ Present : contacts[r] = {}
  /\ \A r \in Present : \E i \in Imports :
       /\ pc[i] \in Stored /\ row[i] = r
       /\ contacts[r] = given[i]
       /\ r \in linked <=> i \in hit

\* Neither activity nor acceptance, nor leave to send, comes from nowhere.
AskedFirst ==
  /\ \A r \in Rows : status[r] = "active" => Asked(r)
  /\ \A r \in Rows, o \in Orgs : setting[r][o] = "accepted" => Asked(r)
  /\ \A s \in Sends : pc[s] \in {"permitted", "sent"} => Asked(row[s])

\* Unless an import writes, everybody stays active from the activation on.
StayActive ==
  \A f \in Feedbacks \ disturbed :
    /\ pc[f] \in Answering =>
         linked # {} /\ \A r \in linked : status[r] = "active"
    /\ pc[f] = "picked" => row[f] \in linked

ConsentInv ==
  /\ ConsentTypeOK
  /\ Placed
  /\ RowsComplete
  /\ RowsWritten
  /\ PendingWasInvited
  /\ NobodyForgotten
  /\ AskedFirst
  /\ StayActive
  /\ RefusedNeedsCause

USE ConsentAssumption DEF Rows, Requests

LEMMA ConsentInvInit == ConsentInit => ConsentInv
<1> SUFFICES ASSUME ConsentInit PROVE ConsentInv
  OBVIOUS
<1> USE DEF ConsentInit
<1>1. ConsentTypeOK
  BY DEF ConsentTypeOK, Stages, Statuses, Invitation, Kinds, Answers
<1>2. Placed /\ RowsComplete /\ RowsWritten
  BY DEF Placed, RowsComplete, RowsWritten, Present, Stored
<1>3. PendingWasInvited /\ NobodyForgotten
  BY DEF PendingWasInvited, NobodyForgotten
<1>4. AskedFirst /\ StayActive /\ RefusedNeedsCause
  BY DEF AskedFirst, StayActive, RefusedNeedsCause, Answering
<1> QED
  BY <1>1, <1>2, <1>3, <1>4 DEF ConsentInv

-----------------------------------------------------------------------------
(* One lemma for each part of the invariant, one step for each action.     *)

\* The rows stay well-formed: what a request writes is what it read or decided.
LEMMA TypesStep ==
  ConsentTypeOK /\ Placed /\ [ConsentNext]_consentVars
  => ConsentTypeOK'
<1> SUFFICES ASSUME ConsentTypeOK, Placed,
                    [ConsentNext]_consentVars
             PROVE  ConsentTypeOK'
  OBVIOUS
<1> USE DEF ConsentTypeOK, Placed, tables, local, record, history, Goto, With,
            Present, Stages, Working, Answering, Stored, Statuses, Invitation,
            Kinds, Answers
<1>1. ASSUME NEW i \in Imports, NEW o \in Orgs, NEW consent \in BOOLEAN,
             NEW from \in Records, NEW found \in BOOLEAN,
             FindUser(i, o, consent, from, found)
      PROVE  ConsentTypeOK'
  BY <1>1 DEF FindUser, Matches, Known
<1>2. ASSUME NEW i \in Imports, SkipRecord(i) \/ CreateInvitation(i) \/ Abort(i)
      PROVE  ConsentTypeOK'
  <2>1. CASE SkipRecord(i)
    BY <2>1 DEF SkipRecord
  <2>2. CASE CreateInvitation(i)
    BY <2>2 DEF CreateInvitation
  <2>3. CASE Abort(i)
    BY <2>3 DEF Abort
  <2> QED
    BY <1>2, <2>1, <2>2, <2>3
<1>3. ASSUME NEW i \in Imports, StoreUser(i)
      PROVE  ConsentTypeOK'
  BY <1>3 DEF StoreUser, StatusFor, RelationAfter, WelcomedAfter, Disturb
<1>4. ASSUME NEW i \in Imports, ReadSettings(i)
      PROVE  ConsentTypeOK'
  BY <1>4 DEF ReadSettings, InvitationFor
<1>5. ASSUME NEW i \in Imports, MarkInvited(i)
      PROVE  ConsentTypeOK'
  BY <1>5 DEF MarkInvited, Disturb
<1>6. ASSUME NEW f \in Feedbacks, Activate(f)
      PROVE  ConsentTypeOK'
  BY <1>6 DEF Activate
<1>7. ASSUME NEW f \in Feedbacks, PickUser(f) \/ CheckFeedback(f)
      PROVE  ConsentTypeOK'
  <2>1. CASE PickUser(f)
    BY <2>1 DEF PickUser
  <2>2. CASE CheckFeedback(f)
    BY <2>2 DEF CheckFeedback, Acceptable
  <2> QED
    BY <1>7, <2>1, <2>2
<1>8. ASSUME NEW f \in Feedbacks, StoreAnswer(f) \/ ReadAnswer(f)
      PROVE  ConsentTypeOK'
  <2>1. CASE StoreAnswer(f)
    BY <2>1 DEF StoreAnswer
  <2>2. CASE ReadAnswer(f)
    <3>1. PICK s \in {"answered", "refused"} : pc' = [pc EXCEPT ![f] = s]
      BY ONLY <2>2 DEF ReadAnswer, Goto
    <3>2. pc[f] = "stored" /\ UNCHANGED <<tables, local, mailed, history>>
      BY ONLY <2>2 DEF ReadAnswer
    <3>3. pc'[f] = s /\ \A q \in Requests \ {f} : pc'[q] = pc[q]
      BY <3>1
    <3>4. pc' \in [Requests -> Stages]
      BY <3>1
    <3>5. UNCHANGED <<status, linked, contacts, welcomed, setting, org, row, consented,
                      given, hit, kept, kind, target, answer, mailed, overlapped,
                      disturbed>>
      BY ONLY <3>2 DEF tables, local, record, history
    <3> QED
      BY ONLY <3>4, <3>5, ConsentTypeOK DEF ConsentTypeOK
  <2> QED
    BY <1>8, <2>1, <2>2
<1>9. ASSUME NEW s \in Sends, CheckConsent(s)
      PROVE  ConsentTypeOK'
  BY <1>9 DEF CheckConsent, Forbidden
<1>10. ASSUME NEW s \in Sends, CreateMessage(s)
      PROVE  ConsentTypeOK'
  BY <1>10 DEF CreateMessage
<1>11. CASE UNCHANGED consentVars
  BY <1>11 DEF consentVars, Asked, WillInvite
<1> HIDE DEF ConsentTypeOK, Placed
<1> QED
  BY <1>1, <1>2, <1>3, <1>4, <1>5, <1>6,
     <1>7, <1>8, <1>9, <1>10, <1>11
  DEF ConsentNext, ImportStep, FeedbackStep, SendStep

\* A request never loses its place.
LEMMA PlacedStep ==
  ConsentTypeOK /\ Placed /\ [ConsentNext]_consentVars
  => Placed'
<1> SUFFICES ASSUME ConsentTypeOK, Placed,
                    [ConsentNext]_consentVars
             PROVE  Placed'
  OBVIOUS
<1> USE DEF ConsentTypeOK, Placed, tables, local, record, history, Goto, With,
            Present, Stages, Working, Answering, Stored, Statuses, Invitation,
            Kinds, Answers
<1>1. ASSUME NEW i \in Imports, NEW o \in Orgs, NEW consent \in BOOLEAN,
             NEW from \in Records, NEW found \in BOOLEAN,
             FindUser(i, o, consent, from, found)
      PROVE  Placed'
  BY <1>1 DEF FindUser, Matches, Known
<1>2. ASSUME NEW i \in Imports, SkipRecord(i) \/ CreateInvitation(i) \/ Abort(i)
      PROVE  Placed'
  <2>1. CASE SkipRecord(i)
    BY <2>1 DEF SkipRecord
  <2>2. CASE CreateInvitation(i)
    BY <2>2 DEF CreateInvitation
  <2>3. CASE Abort(i)
    BY <2>3 DEF Abort
  <2> QED
    BY <1>2, <2>1, <2>2, <2>3
<1>3. ASSUME NEW i \in Imports, StoreUser(i)
      PROVE  Placed'
  BY <1>3 DEF StoreUser, StatusFor, RelationAfter, WelcomedAfter, Disturb
<1>4. ASSUME NEW i \in Imports, ReadSettings(i)
      PROVE  Placed'
  BY <1>4 DEF ReadSettings, InvitationFor
<1>5. ASSUME NEW i \in Imports, MarkInvited(i)
      PROVE  Placed'
  BY <1>5 DEF MarkInvited, Disturb
<1>6. ASSUME NEW f \in Feedbacks, Activate(f)
      PROVE  Placed'
  BY <1>6 DEF Activate
<1>7. ASSUME NEW f \in Feedbacks, PickUser(f) \/ CheckFeedback(f)
      PROVE  Placed'
  <2>1. CASE PickUser(f)
    <3>1. CASE Goto(f, "refused") /\ UNCHANGED row
      <4>1. pc'[f] = "refused" /\ \A q \in Requests \ {f} : pc'[q] = pc[q]
        BY <3>1
      <4>2. UNCHANGED <<setting, org, row, target, answer, mailed>>
        BY <2>1, <3>1 DEF PickUser
      <4>3. pc[f] = "activated"
        BY <2>1 DEF PickUser
      <4> HIDE DEF ConsentTypeOK
      <4> QED
        BY <4>1, <4>2, <4>3
    <3>2. ASSUME NEW r \in linked, row' = [row EXCEPT ![f] = r], Goto(f, "picked")
          PROVE  Placed'
      BY <2>1, <3>2 DEF PickUser
    <3> QED
      BY <2>1, <3>1, <3>2 DEF PickUser
  <2>2. CASE CheckFeedback(f)
    BY <2>2 DEF CheckFeedback, Acceptable
  <2> QED
    BY <1>7, <2>1, <2>2
<1>8. ASSUME NEW f \in Feedbacks, StoreAnswer(f) \/ ReadAnswer(f)
      PROVE  Placed'
  <2>1. CASE StoreAnswer(f)
    BY <2>1 DEF StoreAnswer
  <2>2. CASE ReadAnswer(f)
    <3>1. PICK s \in {"answered", "refused"} : pc' = [pc EXCEPT ![f] = s]
      BY ONLY <2>2 DEF ReadAnswer, Goto
    <3>2. pc[f] = "stored" /\ UNCHANGED <<tables, local, mailed, history>>
      BY ONLY <2>2 DEF ReadAnswer
    <3>3. pc'[f] = s /\ \A q \in Requests \ {f} : pc'[q] = pc[q]
      BY <3>1
    <3>4. UNCHANGED <<setting, org, row, target, answer, mailed>>
      BY ONLY <3>2 DEF tables, local, record
    <3> HIDE DEF ConsentTypeOK
    <3> QED
      BY <3>2, <3>3, <3>4
  <2> QED
    BY <1>8, <2>1, <2>2
<1>9. ASSUME NEW s \in Sends, CheckConsent(s)
      PROVE  Placed'
  BY <1>9 DEF CheckConsent, Forbidden
<1>10. ASSUME NEW s \in Sends, CreateMessage(s)
      PROVE  Placed'
  BY <1>10 DEF CreateMessage
<1>11. CASE UNCHANGED consentVars
  BY <1>11 DEF consentVars, Asked, WillInvite
<1> QED
  BY <1>1, <1>2, <1>3, <1>4, <1>5, <1>6,
     <1>7, <1>8, <1>9, <1>10, <1>11
  DEF ConsentNext, ImportStep, FeedbackStep, SendStep

\* A row and its first setting appear together and never go.
LEMMA RowsStep ==
  ConsentTypeOK /\ Placed /\ RowsComplete /\ [ConsentNext]_consentVars
  => RowsComplete'
<1> SUFFICES ASSUME ConsentTypeOK, Placed, RowsComplete,
                    [ConsentNext]_consentVars
             PROVE  RowsComplete'
  OBVIOUS
<1> USE DEF ConsentTypeOK, Placed, RowsComplete, tables, local, record,
            history, Goto, With, Present, Stages, Working, Answering, Stored,
            Statuses, Invitation, Kinds, Answers
<1>1. ASSUME NEW i \in Imports, NEW o \in Orgs, NEW consent \in BOOLEAN,
             NEW from \in Records, NEW found \in BOOLEAN,
             FindUser(i, o, consent, from, found)
      PROVE  RowsComplete'
  BY <1>1 DEF FindUser, Matches, Known
<1>2. ASSUME NEW i \in Imports, SkipRecord(i) \/ CreateInvitation(i) \/ Abort(i)
      PROVE  RowsComplete'
  BY <1>2 DEF SkipRecord, CreateInvitation, Abort
<1>3. ASSUME NEW i \in Imports, StoreUser(i)
      PROVE  RowsComplete'
  BY <1>3 DEF StoreUser, StatusFor, RelationAfter, WelcomedAfter, Disturb
<1>4. ASSUME NEW i \in Imports, ReadSettings(i)
      PROVE  RowsComplete'
  BY <1>4 DEF ReadSettings, InvitationFor
<1>5. ASSUME NEW i \in Imports, MarkInvited(i)
      PROVE  RowsComplete'
  BY <1>5 DEF MarkInvited, Disturb
<1>6. ASSUME NEW f \in Feedbacks, Activate(f)
      PROVE  RowsComplete'
  BY <1>6 DEF Activate
<1>7. ASSUME NEW f \in Feedbacks, PickUser(f) \/ CheckFeedback(f)
      PROVE  RowsComplete'
  <2>1. CASE PickUser(f)
    BY <2>1 DEF PickUser
  <2>2. CASE CheckFeedback(f)
    BY <2>2 DEF CheckFeedback, Acceptable
  <2> QED
    BY <1>7, <2>1, <2>2
<1>8. ASSUME NEW f \in Feedbacks, StoreAnswer(f) \/ ReadAnswer(f)
      PROVE  RowsComplete'
  <2>1. CASE StoreAnswer(f)
    BY <2>1 DEF StoreAnswer
  <2>2. CASE ReadAnswer(f)
    <3>1. \/ Goto(f, "answered")
          \/ Goto(f, "refused")
      BY ONLY <2>2 DEF ReadAnswer
    <3>2. UNCHANGED <<tables, local, mailed, history>>
      BY ONLY <2>2 DEF ReadAnswer
    <3> QED
      BY <3>1, <3>2
  <2> QED
    BY <1>8, <2>1, <2>2
<1>9. ASSUME NEW s \in Sends, CheckConsent(s)
      PROVE  RowsComplete'
  BY <1>9 DEF CheckConsent, Forbidden
<1>10. ASSUME NEW s \in Sends, CreateMessage(s)
      PROVE  RowsComplete'
  BY <1>10 DEF CreateMessage
<1>11. CASE UNCHANGED consentVars
  BY <1>11 DEF consentVars, Asked, WillInvite
<1> QED
  BY <1>1, <1>2, <1>3, <1>4, <1>5, <1>6,
     <1>7, <1>8, <1>9, <1>10, <1>11
  DEF ConsentNext, ImportStep, FeedbackStep, SendStep

\* What a row says of its last writer stays so: only a commit writes it.
LEMMA WrittenStep ==
  ConsentTypeOK /\ Placed /\ RowsComplete /\ RowsWritten /\ [ConsentNext]_consentVars
  => RowsWritten'
<1> SUFFICES ASSUME ConsentTypeOK, Placed, RowsComplete, RowsWritten,
                    [ConsentNext]_consentVars
             PROVE  RowsWritten'
  OBVIOUS
<1> USE DEF ConsentTypeOK, Placed, RowsComplete, tables, local, record,
            history, Goto, With, Stages, Working, Answering, Stored
<1> DEFINE Quiet == /\ Present' = Present
                    /\ UNCHANGED <<linked, contacts>>
                    /\ \A j \in Imports : pc[j] \in Stored =>
                         /\ pc'[j] \in Stored /\ row'[j] = row[j]
                         /\ given'[j] = given[j] /\ ((j \in hit') <=> (j \in hit))
<1>1. ASSUME NEW i \in Imports, NEW o \in Orgs, NEW consent \in BOOLEAN,
             NEW from \in Records, NEW found \in BOOLEAN,
             FindUser(i, o, consent, from, found)
      PROVE  Quiet
  BY <1>1 DEF FindUser, Present
<1>2. ASSUME NEW i \in Imports, SkipRecord(i) \/ CreateInvitation(i) \/ Abort(i)
      PROVE  Quiet
  BY <1>2 DEF SkipRecord, CreateInvitation, Abort, Present
<1>3. ASSUME NEW i \in Imports, StoreUser(i)
      PROVE  RowsWritten'
  <2>1. /\ row[i] \in Rows /\ pc[i] = "found" /\ pc'[i] = "imported"
        /\ UNCHANGED <<row, given, hit>>
        /\ \A j \in Imports \ {i} : pc'[j] = pc[j]
    BY <1>3 DEF StoreUser
  <2>2. /\ contacts'[row[i]] = given[i]
        /\ \A r \in Rows \ {row[i]} : contacts'[r] = contacts[r]
        /\ row[i] \in linked' <=> i \in hit
        /\ \A r \in Rows \ {row[i]} : (r \in linked') <=> (r \in linked)
    BY <1>3, <2>1 DEF StoreUser
  <2>3. Present' = Present \union {row[i]}
    BY <1>3, <2>1 DEF StoreUser, Present, StatusFor
  <2>4. ASSUME NEW r \in Rows \ Present'
        PROVE  contacts'[r] = {}
    BY <2>2, <2>3 DEF RowsWritten
  <2>5. ASSUME NEW r \in Present'
        PROVE  \E j \in Imports : /\ pc'[j] \in Stored /\ row'[j] = r
                                  /\ contacts'[r] = given'[j]
                                  /\ (r \in linked') <=> (j \in hit')
    <3>1. CASE r = row[i]
      BY <2>1, <2>2, <3>1
    <3>2. CASE r # row[i]
      <4>1. PICK j \in Imports : /\ pc[j] \in Stored /\ row[j] = r
                                 /\ contacts[r] = given[j]
                                 /\ r \in linked <=> j \in hit
        BY <2>3, <3>2 DEF RowsWritten
      <4>2. j # i
        BY <2>1, <4>1
      <4>3. r \in Rows
        BY <2>3 DEF Present
      <4> QED
        BY <2>1, <2>2, <3>2, <4>1, <4>2, <4>3
    <3> QED
      BY <3>1, <3>2
  <2> QED
    BY <2>4, <2>5 DEF RowsWritten
<1>4. ASSUME NEW i \in Imports, ReadSettings(i)
      PROVE  Quiet
  BY <1>4 DEF ReadSettings, Present
<1>5. ASSUME NEW i \in Imports, MarkInvited(i)
      PROVE  Quiet
  <2>1. row[i] \in Present
    BY <1>5 DEF MarkInvited
  <2> QED
    BY <1>5, <2>1 DEF MarkInvited, Present
<1>6. ASSUME NEW f \in Feedbacks, Activate(f)
      PROVE  Quiet
  BY <1>6 DEF Activate, Present
<1>7. ASSUME NEW f \in Feedbacks, PickUser(f) \/ CheckFeedback(f)
      PROVE  Quiet
  BY <1>7 DEF PickUser, CheckFeedback, Present
<1>8. ASSUME NEW f \in Feedbacks, StoreAnswer(f) \/ ReadAnswer(f)
      PROVE  Quiet
  BY <1>8 DEF StoreAnswer, ReadAnswer, Present
<1>9. ASSUME NEW s \in Sends, SendStep(s)
      PROVE  Quiet
  BY <1>9 DEF SendStep, CheckConsent, CreateMessage, Present
<1>10. ASSUME UNCHANGED consentVars PROVE Quiet
  <2>1. UNCHANGED <<status, linked, contacts, pc, row, given, hit>>
    BY <1>10 DEF consentVars
  <2> HIDE DEF ConsentTypeOK, Placed, RowsComplete
  <2> QED
    BY <2>1 DEF Present
<1>11. ASSUME Quiet PROVE RowsWritten'
  BY ONLY <1>11, RowsWritten DEF RowsWritten
<1> HIDE DEF Quiet
<1> QED
  BY <1>1, <1>2, <1>3, <1>4, <1>5, <1>6, <1>7, <1>8, <1>9, <1>10, <1>11
  DEF ConsentNext, ImportStep, FeedbackStep

\* An answer is neither "pending" nor "to_be_invited", and is written once.
LEMMA AnswerStored ==
  ASSUME ConsentTypeOK, Placed, NEW f \in Feedbacks,
         StoreAnswer(f) \/ ReadAnswer(f)
  PROVE  /\ \A r \in Rows, o \in Orgs :
              setting'[r][o] \in {setting[r][o], "accepted", "declined"}
         /\ UNCHANGED <<status, row, org, kind, mailed>>
         /\ \A j \in Imports : pc'[j] = pc[j]
<1>1. CASE StoreAnswer(f)
  <2>1. answer[f] \in {"accepted", "declined"}
    BY <1>1 DEF StoreAnswer, ConsentTypeOK, Answers, Placed
  <2>2. setting \in [Rows -> [Orgs -> Invitation]]
    BY DEF ConsentTypeOK
  <2>3. setting' = [setting EXCEPT ![target[f]][org[f]] = answer[f]]
    BY <1>1 DEF StoreAnswer
  <2>4. \A r \in Rows, o \in Orgs :
          setting'[r][o] \in {setting[r][o], "accepted", "declined"}
    BY ONLY <2>1, <2>2, <2>3
  <2>5. UNCHANGED <<status, row, org, kind, mailed>>
    BY <1>1 DEF StoreAnswer, local, record
  <2>6. \A j \in Imports : pc'[j] = pc[j]
    BY <1>1 DEF StoreAnswer, Goto, ConsentTypeOK
  <2> QED
    BY <2>4, <2>5, <2>6
<1>2. CASE ReadAnswer(f)
  <2>1. UNCHANGED <<status, setting, row, org, kind, mailed>>
    BY <1>2 DEF ReadAnswer, tables, local, record
  <2>2. \A j \in Imports : pc'[j] = pc[j]
    BY <1>2 DEF ReadAnswer, Goto, ConsentTypeOK
  <2> QED
    BY <2>1, <2>2
<1> QED
  BY <1>1, <1>2

\* Only an import that has committed its invitation writes "pending".
LEMMA PendingStep ==
  ConsentTypeOK /\ Placed /\ PendingWasInvited /\ [ConsentNext]_consentVars
  => PendingWasInvited'
<1> SUFFICES ASSUME ConsentTypeOK, Placed, PendingWasInvited,
                    [ConsentNext]_consentVars
             PROVE  PendingWasInvited'
  OBVIOUS
<1> USE DEF ConsentTypeOK, Placed, PendingWasInvited, tables, local, record,
            history, Goto, With, Present, Stages, Working, Answering, Stored,
            Statuses, Invitation, Kinds, Answers
<1>1. ASSUME NEW i \in Imports, NEW o \in Orgs, NEW consent \in BOOLEAN,
             NEW from \in Records, NEW found \in BOOLEAN,
             FindUser(i, o, consent, from, found)
      PROVE  PendingWasInvited'
  <2>1. ASSUME NEW j \in Imports, j \in mailed
        PROVE  row'[j] = row[j] /\ org'[j] = org[j]
    <3>1. j # i
      BY <1>1, <2>1 DEF FindUser
    <3> QED
      BY <1>1, <3>1 DEF FindUser
  <2>2. UNCHANGED <<status, setting, mailed, kind>>
    BY <1>1 DEF FindUser
  <2> HIDE DEF ConsentTypeOK, Placed
  <2> QED
    BY <2>1, <2>2
<1>2. ASSUME NEW i \in Imports, SkipRecord(i) \/ CreateInvitation(i) \/ Abort(i)
      PROVE  PendingWasInvited'
  <2>1. CASE SkipRecord(i)
    BY <2>1 DEF SkipRecord
  <2>2. CASE CreateInvitation(i)
    BY <2>2 DEF CreateInvitation
  <2>3. CASE Abort(i)
    BY <2>3 DEF Abort
  <2> QED
    BY <1>2, <2>1, <2>2, <2>3
<1>3. ASSUME NEW i \in Imports, StoreUser(i)
      PROVE  PendingWasInvited'
  <2>1. \A r \in Rows : status'[r] = "pending" => status[r] = "pending"
    BY <1>3 DEF StoreUser, StatusFor
  <2>2. \A r \in Rows, o \in Orgs :
          setting'[r][o] = "pending" => setting[r][o] = "pending"
    BY <1>3 DEF StoreUser, RelationAfter
  <2>3. UNCHANGED <<mailed, row, org, kind>>
    BY <1>3 DEF StoreUser
  <2> HIDE DEF ConsentTypeOK, Placed
  <2> QED
    BY <2>1, <2>2, <2>3
<1>4. ASSUME NEW i \in Imports, ReadSettings(i)
      PROVE  PendingWasInvited'
  <2>1. i \notin mailed
    BY <1>4 DEF ReadSettings
  <2>2. \A j \in Imports \ {i} : kind'[j] = kind[j]
    BY <1>4 DEF ReadSettings
  <2>3. UNCHANGED <<status, setting, mailed, row, org>>
    BY <1>4 DEF ReadSettings
  <2> HIDE DEF ConsentTypeOK, Placed
  <2> QED
    BY <2>1, <2>2, <2>3
<1>5. ASSUME NEW i \in Imports, MarkInvited(i)
      PROVE  PendingWasInvited'
  BY <1>5 DEF MarkInvited, Disturb
<1>6. ASSUME NEW f \in Feedbacks, Activate(f)
      PROVE  PendingWasInvited'
  BY <1>6 DEF Activate
<1>7. ASSUME NEW f \in Feedbacks, PickUser(f) \/ CheckFeedback(f)
      PROVE  PendingWasInvited'
  <2>1. CASE PickUser(f)
    BY <2>1 DEF PickUser
  <2>2. CASE CheckFeedback(f)
    BY <2>2 DEF CheckFeedback, Acceptable
  <2> QED
    BY <1>7, <2>1, <2>2
<1>8. ASSUME NEW f \in Feedbacks, StoreAnswer(f) \/ ReadAnswer(f)
      PROVE  PendingWasInvited'
  <2>1. /\ \A r \in Rows, o \in Orgs :
             setting'[r][o] = "pending" => setting[r][o] = "pending"
        /\ UNCHANGED <<status, row, org, kind, mailed>>
    BY <1>8, AnswerStored
  <2> HIDE DEF ConsentTypeOK, Placed
  <2> QED
    BY <2>1
<1>9. ASSUME NEW s \in Sends, CheckConsent(s)
      PROVE  PendingWasInvited'
  <2>1. /\ UNCHANGED <<status, setting, mailed, kind>>
        /\ \A j \in Imports : row'[j] = row[j] /\ org'[j] = org[j]
    BY <1>9 DEF CheckConsent
  <2> HIDE DEF ConsentTypeOK, Placed
  <2> QED
    BY <2>1
<1>10. ASSUME NEW s \in Sends, CreateMessage(s)
      PROVE  PendingWasInvited'
  BY <1>10 DEF CreateMessage
<1>11. CASE UNCHANGED consentVars
  BY <1>11 DEF consentVars, Asked, WillInvite
<1> QED
  BY <1>1, <1>2, <1>3, <1>4, <1>5, <1>6,
     <1>7, <1>8, <1>9, <1>10, <1>11
  DEF ConsentNext, ImportStep, FeedbackStep, SendStep

\* An import that stops short of its invitation leaves a trace.
LEMMA ForgottenStep ==
  ConsentTypeOK /\ Placed /\ NobodyForgotten /\ [ConsentNext]_consentVars
  => NobodyForgotten'
<1> SUFFICES ASSUME ConsentTypeOK, Placed, NobodyForgotten,
                    [ConsentNext]_consentVars
             PROVE  NobodyForgotten'
  OBVIOUS
<1> USE DEF ConsentTypeOK, Placed, WillInvite, tables, local, record, history,
            Goto, With, Present, Stages, Working, Answering, Stored, Statuses,
            Invitation, Kinds, Answers
<1>1. ASSUME NEW i \in Imports, NEW o \in Orgs, NEW consent \in BOOLEAN,
             NEW from \in Records, NEW found \in BOOLEAN,
             FindUser(i, o, consent, from, found)
      PROVE  NobodyForgotten'
  <2>1. ASSUME NEW j \in Imports, NEW r \in Rows
        PROVE  /\ WillInvite(j, r, {"messaging"}) => WillInvite(j, r, {"messaging"})'
               /\ WillInvite(j, r, {"messaging", "organisation"})
                  => WillInvite(j, r, {"messaging", "organisation"})' /\ org'[j] = org[j]
    BY <1>1 DEF FindUser, Matches, Known
  <2>2. \A r \in Rows : status'[r] = "to_be_invited" => status[r] = "to_be_invited"
    BY <1>1 DEF FindUser, Matches, Known
  <2>3. \A r \in Rows, p \in Orgs :
          setting'[r][p] = "to_be_invited" => setting[r][p] = "to_be_invited"
    BY <1>1 DEF FindUser, Matches, Known
  <2> HIDE DEF WillInvite, ConsentTypeOK, Placed, With, Present
  <2> QED
    BY <2>1, <2>2, <2>3 DEF NobodyForgotten
<1>2. ASSUME NEW i \in Imports, SkipRecord(i) \/ CreateInvitation(i) \/ Abort(i)
      PROVE  NobodyForgotten'
  <2>1. ASSUME NEW j \in Imports, NEW r \in Rows
        PROVE  /\ WillInvite(j, r, {"messaging"}) => WillInvite(j, r, {"messaging"})'
               /\ WillInvite(j, r, {"messaging", "organisation"})
                  => WillInvite(j, r, {"messaging", "organisation"})' /\ org'[j] = org[j]
    BY <1>2 DEF SkipRecord, CreateInvitation, Abort
  <2>2. \A r \in Rows : status'[r] = "to_be_invited" => status[r] = "to_be_invited"
    BY <1>2 DEF SkipRecord, CreateInvitation, Abort
  <2>3. \A r \in Rows, o \in Orgs :
          setting'[r][o] = "to_be_invited" => setting[r][o] = "to_be_invited"
    BY <1>2 DEF SkipRecord, CreateInvitation, Abort
  <2> HIDE DEF WillInvite, ConsentTypeOK, Placed
  <2> QED
    BY <2>1, <2>2, <2>3 DEF NobodyForgotten
<1>3. ASSUME NEW i \in Imports, StoreUser(i)
      PROVE  NobodyForgotten'
  BY <1>3 DEF NobodyForgotten, StoreUser, StatusFor, RelationAfter, Disturb
<1>4. ASSUME NEW i \in Imports, ReadSettings(i)
      PROVE  NobodyForgotten'
  <2>1. ASSUME NEW j \in Imports \ {i}, NEW r \in Rows
        PROVE  /\ WillInvite(j, r, {"messaging"}) => WillInvite(j, r, {"messaging"})'
               /\ WillInvite(j, r, {"messaging", "organisation"})
                  => WillInvite(j, r, {"messaging", "organisation"})' /\ org'[j] = org[j]
    BY <1>4 DEF ReadSettings
  <2>2. status[row[i]] = "to_be_invited" => WillInvite(i, row[i], {"messaging"})'
    BY <1>4 DEF ReadSettings, InvitationFor
  <2>3. setting[row[i]][org[i]] = "to_be_invited"
        => WillInvite(i, row[i], {"messaging", "organisation"})'
    BY <1>4 DEF ReadSettings, InvitationFor
  <2>4. UNCHANGED <<status, setting, row, org>>
    BY <1>4 DEF ReadSettings
  <2>5. \A r, K : WillInvite(i, r, K) => r = row[i]
    OBVIOUS
  <2> HIDE DEF WillInvite, ConsentTypeOK, Placed
  <2>8. ASSUME NEW r \in Rows, status'[r] = "to_be_invited"
        PROVE  \E j \in Imports : WillInvite(j, r, {"messaging"})'
    <3>1. PICK j \in Imports : WillInvite(j, r, {"messaging"})
      BY <2>4, <2>8 DEF NobodyForgotten
    <3> QED
      BY <3>1, <2>1, <2>2, <2>4, <2>5, <2>8
  <2>9. ASSUME NEW r \in Rows, NEW p \in Orgs, setting'[r][p] = "to_be_invited"
        PROVE  \E j \in Imports :
                 org'[j] = p /\ WillInvite(j, r, {"messaging", "organisation"})'
    <3>1. PICK j \in Imports :
            org[j] = p /\ WillInvite(j, r, {"messaging", "organisation"})
      BY <2>4, <2>9 DEF NobodyForgotten
    <3> QED
      BY <3>1, <2>1, <2>3, <2>4, <2>5, <2>9
  <2> QED
    BY <2>8, <2>9 DEF NobodyForgotten
<1>5. ASSUME NEW i \in Imports, MarkInvited(i)
      PROVE  NobodyForgotten'
  <2>1. ASSUME NEW j \in Imports \ {i}, NEW r \in Rows
        PROVE  /\ WillInvite(j, r, {"messaging"}) => WillInvite(j, r, {"messaging"})'
               /\ WillInvite(j, r, {"messaging", "organisation"})
                  => WillInvite(j, r, {"messaging", "organisation"})' /\ org'[j] = org[j]
    BY <1>5 DEF MarkInvited
  <2>2. ASSUME NEW r \in Rows, status'[r] = "to_be_invited"
        PROVE  status[r] = "to_be_invited" /\ ~ WillInvite(i, r, {"messaging"})
    BY <1>5, <2>2 DEF MarkInvited
  <2>3. ASSUME NEW r \in Rows, NEW o \in Orgs, setting'[r][o] = "to_be_invited"
        PROVE  /\ setting[r][o] = "to_be_invited"
               /\ ~ (org[i] = o /\ WillInvite(i, r, {"messaging", "organisation"}))
    BY <1>5, <2>3 DEF MarkInvited
  <2> HIDE DEF WillInvite, ConsentTypeOK, Placed
  <2>8. ASSUME NEW r \in Rows, status'[r] = "to_be_invited"
        PROVE  \E j \in Imports : WillInvite(j, r, {"messaging"})'
    <3>1. PICK j \in Imports : WillInvite(j, r, {"messaging"})
      BY <2>2, <2>8 DEF NobodyForgotten
    <3> QED
      BY <3>1, <2>1, <2>2, <2>8
  <2>9. ASSUME NEW r \in Rows, NEW p \in Orgs, setting'[r][p] = "to_be_invited"
        PROVE  \E j \in Imports :
                 org'[j] = p /\ WillInvite(j, r, {"messaging", "organisation"})'
    <3>1. PICK j \in Imports :
            org[j] = p /\ WillInvite(j, r, {"messaging", "organisation"})
      BY <2>3, <2>9 DEF NobodyForgotten
    <3> QED
      BY <3>1, <2>1, <2>3, <2>9
  <2> QED
    BY <2>8, <2>9 DEF NobodyForgotten
<1>6. ASSUME NEW f \in Feedbacks, Activate(f)
      PROVE  NobodyForgotten'
  <2>1. ASSUME NEW j \in Imports, NEW r \in Rows
        PROVE  /\ WillInvite(j, r, {"messaging"}) => WillInvite(j, r, {"messaging"})'
               /\ WillInvite(j, r, {"messaging", "organisation"})
                  => WillInvite(j, r, {"messaging", "organisation"})' /\ org'[j] = org[j]
    BY <1>6 DEF Activate
  <2>2. \A r \in Rows : status'[r] = "to_be_invited" => status[r] = "to_be_invited"
    BY <1>6 DEF Activate
  <2>3. \A r \in Rows, o \in Orgs :
          setting'[r][o] = "to_be_invited" => setting[r][o] = "to_be_invited"
    BY <1>6 DEF Activate
  <2> HIDE DEF WillInvite, ConsentTypeOK, Placed
  <2> QED
    BY <2>1, <2>2, <2>3 DEF NobodyForgotten
<1>7. ASSUME NEW f \in Feedbacks, PickUser(f) \/ CheckFeedback(f)
      PROVE  NobodyForgotten'
  <2>1. ASSUME NEW j \in Imports, NEW r \in Rows
        PROVE  /\ WillInvite(j, r, {"messaging"}) => WillInvite(j, r, {"messaging"})'
               /\ WillInvite(j, r, {"messaging", "organisation"})
                  => WillInvite(j, r, {"messaging", "organisation"})' /\ org'[j] = org[j]
    BY <1>7 DEF PickUser, CheckFeedback, Acceptable
  <2>2. \A r \in Rows : status'[r] = "to_be_invited" => status[r] = "to_be_invited"
    BY <1>7 DEF PickUser, CheckFeedback, Acceptable
  <2>3. \A r \in Rows, o \in Orgs :
          setting'[r][o] = "to_be_invited" => setting[r][o] = "to_be_invited"
    BY <1>7 DEF PickUser, CheckFeedback, Acceptable
  <2> HIDE DEF WillInvite, ConsentTypeOK, Placed
  <2> QED
    BY <2>1, <2>2, <2>3 DEF NobodyForgotten
<1>8. ASSUME NEW f \in Feedbacks, StoreAnswer(f) \/ ReadAnswer(f)
      PROVE  NobodyForgotten'
  <2>1. ASSUME NEW j \in Imports, NEW r \in Rows
        PROVE  /\ WillInvite(j, r, {"messaging"}) => WillInvite(j, r, {"messaging"})'
               /\ WillInvite(j, r, {"messaging", "organisation"})
                  => WillInvite(j, r, {"messaging", "organisation"})' /\ org'[j] = org[j]
    <3>1. pc'[j] = pc[j] /\ UNCHANGED <<row, org, kind>>
      BY <1>8, AnswerStored
    <3> QED
      BY ONLY <3>1 DEF WillInvite
  <2>2. \A r \in Rows : status'[r] = "to_be_invited" => status[r] = "to_be_invited"
    BY <1>8, AnswerStored
  <2>3. \A r \in Rows, o \in Orgs :
          setting'[r][o] = "to_be_invited" => setting[r][o] = "to_be_invited"
    BY <1>8, AnswerStored
  <2> HIDE DEF WillInvite, ConsentTypeOK, Placed
  <2> QED
    BY <2>1, <2>2, <2>3 DEF NobodyForgotten
<1>9. ASSUME NEW s \in Sends, CheckConsent(s)
      PROVE  NobodyForgotten'
  <2>1. ASSUME NEW j \in Imports, NEW r \in Rows
        PROVE  /\ WillInvite(j, r, {"messaging"}) => WillInvite(j, r, {"messaging"})'
               /\ WillInvite(j, r, {"messaging", "organisation"})
                  => WillInvite(j, r, {"messaging", "organisation"})' /\ org'[j] = org[j]
    BY <1>9 DEF CheckConsent, Forbidden
  <2>2. \A r \in Rows : status'[r] = "to_be_invited" => status[r] = "to_be_invited"
    BY <1>9 DEF CheckConsent, Forbidden
  <2>3. \A r \in Rows, o \in Orgs :
          setting'[r][o] = "to_be_invited" => setting[r][o] = "to_be_invited"
    BY <1>9 DEF CheckConsent, Forbidden
  <2> HIDE DEF WillInvite, ConsentTypeOK, Placed
  <2> QED
    BY <2>1, <2>2, <2>3 DEF NobodyForgotten
<1>10. ASSUME NEW s \in Sends, CreateMessage(s)
      PROVE  NobodyForgotten'
  <2>1. ASSUME NEW j \in Imports, NEW r \in Rows
        PROVE  /\ WillInvite(j, r, {"messaging"}) => WillInvite(j, r, {"messaging"})'
               /\ WillInvite(j, r, {"messaging", "organisation"})
                  => WillInvite(j, r, {"messaging", "organisation"})' /\ org'[j] = org[j]
    BY <1>10 DEF CreateMessage
  <2>2. \A r \in Rows : status'[r] = "to_be_invited" => status[r] = "to_be_invited"
    BY <1>10 DEF CreateMessage
  <2>3. \A r \in Rows, o \in Orgs :
          setting'[r][o] = "to_be_invited" => setting[r][o] = "to_be_invited"
    BY <1>10 DEF CreateMessage
  <2> HIDE DEF WillInvite, ConsentTypeOK, Placed
  <2> QED
    BY <2>1, <2>2, <2>3 DEF NobodyForgotten
<1>11. CASE UNCHANGED consentVars
  BY <1>11 DEF consentVars, NobodyForgotten
<1> QED
  BY <1>1, <1>2, <1>3, <1>4, <1>5, <1>6,
     <1>7, <1>8, <1>9, <1>10, <1>11
  DEF ConsentNext, ImportStep, FeedbackStep, SendStep

\* Whoever was asked stays asked.
LEMMA AskedStep ==
  ConsentTypeOK /\ Placed /\ RowsComplete /\ AskedFirst /\ [ConsentNext]_consentVars
  => AskedFirst'
<1> SUFFICES ASSUME ConsentTypeOK, Placed, RowsComplete, AskedFirst,
                    [ConsentNext]_consentVars
             PROVE  AskedFirst'
  OBVIOUS
<1> USE DEF ConsentTypeOK, Placed, RowsComplete, AskedFirst, Asked, tables,
            local, record, history, Goto, With, Present, Stages, Working,
            Answering, Stored, Statuses, Invitation, Kinds, Answers
<1>1. ASSUME NEW i \in Imports, NEW o \in Orgs, NEW consent \in BOOLEAN,
             NEW from \in Records, NEW found \in BOOLEAN,
             FindUser(i, o, consent, from, found)
      PROVE  AskedFirst'
  <2>1. \A r \in Rows : Asked(r) => Asked(r)'
    BY <1>1 DEF FindUser, Matches, Known
  <2>2. UNCHANGED <<status, setting>>
    BY <1>1 DEF FindUser, Matches, Known
  <2>3. \A s \in Sends : pc'[s] = pc[s] /\ row'[s] = row[s]
    BY <1>1 DEF FindUser, Matches, Known
  <2> HIDE DEF Asked
  <2> QED
    BY <2>1, <2>2, <2>3
<1>2. ASSUME NEW i \in Imports, SkipRecord(i) \/ CreateInvitation(i) \/ Abort(i)
      PROVE  AskedFirst'
  <2>1. \A r \in Rows : Asked(r) => Asked(r)'
    BY <1>2 DEF SkipRecord, CreateInvitation, Abort
  <2>2. UNCHANGED <<status, setting>>
    BY <1>2 DEF SkipRecord, CreateInvitation, Abort
  <2>3. \A s \in Sends : pc'[s] = pc[s] /\ row'[s] = row[s]
    BY <1>2 DEF SkipRecord, CreateInvitation, Abort
  <2> HIDE DEF Asked
  <2> QED
    BY <2>1, <2>2, <2>3
<1>3. ASSUME NEW i \in Imports, StoreUser(i)
      PROVE  AskedFirst'
  <2>1. \A r \in Rows : Asked(r) => Asked(r)'
    BY <1>3 DEF StoreUser
  <2>2. \A r \in Rows : status'[r] = "active" => status[r] = "active" \/ Asked(r)'
    BY <1>3 DEF StoreUser, StatusFor
  <2>3. \A r \in Rows, o \in Orgs :
          setting'[r][o] = "accepted" => setting[r][o] = "accepted" \/ Asked(r)'
    BY <1>3 DEF StoreUser, RelationAfter
  <2>4. \A s \in Sends : pc'[s] = pc[s] /\ row'[s] = row[s]
    BY <1>3 DEF StoreUser
  <2> HIDE DEF Asked
  <2> QED
    BY <2>1, <2>2, <2>3, <2>4
<1>4. ASSUME NEW i \in Imports, ReadSettings(i)
      PROVE  AskedFirst'
  BY <1>4 DEF ReadSettings, InvitationFor
<1>5. ASSUME NEW i \in Imports, MarkInvited(i)
      PROVE  AskedFirst'
  BY <1>5 DEF MarkInvited, Disturb
<1>6. ASSUME NEW f \in Feedbacks, Activate(f)
      PROVE  AskedFirst'
  BY <1>6 DEF Activate
<1>7. ASSUME NEW f \in Feedbacks, PickUser(f) \/ CheckFeedback(f)
      PROVE  AskedFirst'
  BY <1>7 DEF PickUser, CheckFeedback, Acceptable
<1>8. ASSUME NEW f \in Feedbacks, StoreAnswer(f) \/ ReadAnswer(f)
      PROVE  AskedFirst'
  <2>1. CASE StoreAnswer(f)
    BY <2>1 DEF StoreAnswer
  <2>2. CASE ReadAnswer(f)
    <3>1. \/ Goto(f, "answered")
          \/ Goto(f, "refused")
      BY ONLY <2>2 DEF ReadAnswer
    <3>2. UNCHANGED <<tables, local, mailed, history>>
      BY ONLY <2>2 DEF ReadAnswer
    <3> QED
      BY <3>1, <3>2
  <2> QED
    BY <1>8, <2>1, <2>2
<1>9. ASSUME NEW s \in Sends, CheckConsent(s)
      PROVE  AskedFirst'
  <2>1. \A r \in Rows : Asked(r) => Asked(r)'
    BY <1>9 DEF CheckConsent
  <2>2. PICK r \in Present :
          /\ row' = [row EXCEPT ![s] = r]
          /\ pc'[s] = "permitted" => ~ Forbidden(r)
    <3> HIDE DEF ConsentTypeOK, Placed, RowsComplete, AskedFirst, Asked, Present,
                 Forbidden, tables, local, record, history
    <3>1. PICK r \in Present, o \in Orgs :
            /\ row' = [row EXCEPT ![s] = r]
            /\ pc' = [pc EXCEPT ![s] = IF Forbidden(r) THEN "forbidden" ELSE "permitted"]
      BY <1>9, Zenon DEF CheckConsent
    <3>2. s \in DOMAIN pc
      BY DEF ConsentTypeOK
    <3> QED
      BY <3>1, <3>2
  <2>3. pc'[s] = "permitted" => Asked(r)
    <3> SUFFICES ASSUME ~ Forbidden(r) PROVE Asked(r)
      BY <2>2
    <3>1. CASE status[r] = "active"
      BY <3>1
    <3>2. CASE \A o \in Orgs : setting[r][o] \in {"none", "accepted"}
      BY <3>2
    <3> QED
      BY <3>1, <3>2 DEF Forbidden
  <2>4. pc'[s] # "sent"
    BY <1>9 DEF CheckConsent
  <2>5. UNCHANGED <<status, setting>>
    BY <1>9 DEF CheckConsent
  <2>6. \A t \in Sends \ {s} : pc'[t] = pc[t] /\ row'[t] = row[t]
    BY <1>9 DEF CheckConsent
  <2> HIDE DEF Asked
  <2> QED
    BY <2>1, <2>2, <2>3, <2>4, <2>5, <2>6
<1>10. ASSUME NEW s \in Sends, CreateMessage(s)
      PROVE  AskedFirst'
  BY <1>10 DEF CreateMessage
<1>11. CASE UNCHANGED consentVars
  BY <1>11 DEF consentVars, Asked, WillInvite
<1> HIDE DEF ConsentTypeOK, Placed, RowsComplete, AskedFirst
<1> QED
  BY <1>1, <1>2, <1>3, <1>4, <1>5, <1>6,
     <1>7, <1>8, <1>9, <1>10, <1>11
  DEF ConsentNext, ImportStep, FeedbackStep, SendStep

\* Between the activation and the answer only imports touch the person.
LEMMA StayStep ==
  ConsentTypeOK /\ Placed /\ RowsComplete /\ StayActive /\ [ConsentNext]_consentVars
  => StayActive'
<1> SUFFICES ASSUME ConsentTypeOK, Placed, RowsComplete, StayActive,
                    [ConsentNext]_consentVars
             PROVE  StayActive'
  OBVIOUS
<1> USE DEF ConsentTypeOK, Placed, RowsComplete, StayActive, tables, local,
            record, history, Goto, With, Present, Stages, Working, Answering,
            Stored, Statuses, Invitation, Kinds, Answers
<1>1. ASSUME NEW i \in Imports, NEW o \in Orgs, NEW consent \in BOOLEAN,
             NEW from \in Records, NEW found \in BOOLEAN,
             FindUser(i, o, consent, from, found)
      PROVE  StayActive'
  BY <1>1 DEF FindUser, Matches, Known
<1>2. ASSUME NEW i \in Imports, SkipRecord(i) \/ CreateInvitation(i) \/ Abort(i)
      PROVE  StayActive'
  BY <1>2 DEF SkipRecord, CreateInvitation, Abort
<1>3. ASSUME NEW i \in Imports, StoreUser(i)
      PROVE  StayActive'
  BY <1>3 DEF StoreUser, StatusFor, RelationAfter, WelcomedAfter, Disturb
<1>4. ASSUME NEW i \in Imports, ReadSettings(i)
      PROVE  StayActive'
  BY <1>4 DEF ReadSettings, InvitationFor
<1>5. ASSUME NEW i \in Imports, MarkInvited(i)
      PROVE  StayActive'
  BY <1>5 DEF MarkInvited, Disturb
<1>6. ASSUME NEW f \in Feedbacks, Activate(f)
      PROVE  StayActive'
  BY <1>6 DEF Activate
<1>7. ASSUME NEW f \in Feedbacks, PickUser(f) \/ CheckFeedback(f)
      PROVE  StayActive'
  <2>1. CASE PickUser(f)
    BY <2>1 DEF PickUser
  <2>2. CASE CheckFeedback(f)
    BY <2>2 DEF CheckFeedback, Acceptable
  <2> QED
    BY <1>7, <2>1, <2>2
<1>8. ASSUME NEW f \in Feedbacks, StoreAnswer(f) \/ ReadAnswer(f)
      PROVE  StayActive'
  <2>1. CASE StoreAnswer(f)
    BY <2>1 DEF StoreAnswer
  <2>2. CASE ReadAnswer(f)
    <3>1. \/ Goto(f, "answered")
          \/ Goto(f, "refused")
      BY ONLY <2>2 DEF ReadAnswer
    <3>2. UNCHANGED <<tables, local, mailed, history>>
      BY ONLY <2>2 DEF ReadAnswer
    <3> QED
      BY <3>1, <3>2
  <2> QED
    BY <1>8, <2>1, <2>2
<1>9. ASSUME NEW s \in Sends, CheckConsent(s)
      PROVE  StayActive'
  BY <1>9 DEF CheckConsent, Forbidden
<1>10. ASSUME NEW s \in Sends, CreateMessage(s)
      PROVE  StayActive'
  BY <1>10 DEF CreateMessage
<1>11. CASE UNCHANGED consentVars
  BY <1>11 DEF consentVars, Asked, WillInvite
<1> QED
  BY <1>1, <1>2, <1>3, <1>4, <1>5, <1>6,
     <1>7, <1>8, <1>9, <1>10, <1>11
  DEF ConsentNext, ImportStep, FeedbackStep, SendStep

\* A refusal is decided on what the request has seen since the activation.
LEMMA RefusedStep ==
  ConsentTypeOK /\ Placed /\ RowsComplete /\ RowsWritten /\ StayActive
  /\ RefusedNeedsCause /\ [ConsentNext]_consentVars
  => RefusedNeedsCause'
<1> SUFFICES ASSUME ConsentTypeOK, Placed, RowsComplete, RowsWritten, StayActive,
                    RefusedNeedsCause,
                    [ConsentNext]_consentVars
             PROVE  RefusedNeedsCause'
  OBVIOUS
<1> USE DEF ConsentTypeOK, Placed, RowsComplete, StayActive, RefusedNeedsCause,
            TwoRows, tables, local, record, history, Goto, With, Present,
            Stages, Working, Answering, Stored, Statuses, Invitation, Kinds,
            Answers
<1>1. ASSUME NEW i \in Imports, NEW o \in Orgs, NEW consent \in BOOLEAN,
             NEW from \in Records, NEW found \in BOOLEAN,
             FindUser(i, o, consent, from, found)
      PROVE  RefusedNeedsCause'
  BY <1>1 DEF FindUser, Matches, Known
<1>2. ASSUME NEW i \in Imports, SkipRecord(i) \/ CreateInvitation(i) \/ Abort(i)
      PROVE  RefusedNeedsCause'
  <2>1. CASE SkipRecord(i)
    <3>1. /\ pc[i] = "idle" /\ pc'[i] = "skipped"
          /\ \A q \in Requests \ {i} : pc'[q] = pc[q]
          /\ UNCHANGED <<status, row, answer, hit, disturbed>>
      BY <2>1 DEF SkipRecord
    <3> HIDE DEF ConsentTypeOK, Placed, RowsComplete, StayActive
    <3> QED
      BY <3>1
  <2>2. CASE CreateInvitation(i)
    BY <2>2 DEF CreateInvitation
  <2>3. CASE Abort(i)
    BY <2>3 DEF Abort
  <2> QED
    BY <1>2, <2>1, <2>2, <2>3
<1>3. ASSUME NEW i \in Imports, StoreUser(i)
      PROVE  RefusedNeedsCause'
  BY <1>3 DEF StoreUser, StatusFor, RelationAfter, WelcomedAfter, Disturb
<1>4. ASSUME NEW i \in Imports, ReadSettings(i)
      PROVE  RefusedNeedsCause'
  BY <1>4 DEF ReadSettings, InvitationFor
<1>5. ASSUME NEW i \in Imports, MarkInvited(i)
      PROVE  RefusedNeedsCause'
  BY <1>5 DEF MarkInvited, Disturb
<1>6. ASSUME NEW f \in Feedbacks, Activate(f)
      PROVE  RefusedNeedsCause'
  <2>1. ASSUME linked = {}
        PROVE  \E i \in Imports \ hit : pc[i] \in Stored
    <3>1. PICK r \in Rows, o \in Orgs : setting[r][o] # "none"
      BY <1>6 DEF Activate
    <3>2. r \in Present /\ r \notin linked
      BY <2>1, <3>1
    <3> QED
      BY <3>2 DEF RowsWritten
  <2>2. row[f] = Nobody
    BY <1>6 DEF Activate
  <2> QED
    BY <1>6, <2>1, <2>2 DEF Activate
<1>7. ASSUME NEW f \in Feedbacks, PickUser(f) \/ CheckFeedback(f)
      PROVE  RefusedNeedsCause'
  <2>1. CASE PickUser(f)
    BY <2>1 DEF PickUser
  <2>2. CASE CheckFeedback(f)
    BY <2>2 DEF CheckFeedback, Acceptable
  <2> QED
    BY <1>7, <2>1, <2>2
<1>8. ASSUME NEW f \in Feedbacks, StoreAnswer(f) \/ ReadAnswer(f)
      PROVE  RefusedNeedsCause'
  <2>1. CASE StoreAnswer(f)
    BY <2>1 DEF StoreAnswer
  <2>2. CASE ReadAnswer(f)
    <3>1. UNCHANGED <<tables, local, mailed, history>> /\ pc[f] = "stored"
      BY ONLY <2>2 DEF ReadAnswer
    <3>2. PICK s \in {"answered", "refused"} :
            /\ pc' = [pc EXCEPT ![f] = s]
            /\ s = "refused" => linked = {} \/ \E r \in linked : r # target[f]
      BY ONLY <2>2 DEF ReadAnswer, Goto
    <3>3. s = "refused" => f \in disturbed \/ TwoRows
      <4>1. target[f] \in Present
        BY <3>1
      <4> QED
        BY <3>1, <3>2, <4>1
    <3>4. pc'[f] = s /\ \A q \in Requests \ {f} : pc'[q] = pc[q]
      BY <3>2
    <3>5. \A i \in Imports : pc'[i] = pc[i]
      BY <3>4
    <3>6. UNCHANGED <<status, row, answer, hit, disturbed>>
      BY ONLY <3>1 DEF tables, local, record, history
    <3> HIDE DEF ConsentTypeOK, Placed, RowsComplete, StayActive
    <3> QED
      BY <3>3, <3>4, <3>5, <3>6
  <2> QED
    BY <1>8, <2>1, <2>2
<1>9. ASSUME NEW s \in Sends, CheckConsent(s)
      PROVE  RefusedNeedsCause'
  BY <1>9 DEF CheckConsent, Forbidden
<1>10. ASSUME NEW s \in Sends, CreateMessage(s)
      PROVE  RefusedNeedsCause'
  BY <1>10 DEF CreateMessage
<1>11. CASE UNCHANGED consentVars
  BY <1>11 DEF consentVars, Asked, WillInvite
<1> QED
  BY <1>1, <1>2, <1>3, <1>4, <1>5, <1>6,
     <1>7, <1>8, <1>9, <1>10, <1>11
  DEF ConsentNext, ImportStep, FeedbackStep, SendStep

-----------------------------------------------------------------------------
LEMMA ConsentInvStep == ConsentInv /\ [ConsentNext]_consentVars => ConsentInv'
BY TypesStep, PlacedStep, RowsStep, WrittenStep, PendingStep, ForgottenStep, AskedStep,
   StayStep, RefusedStep DEF ConsentInv

LEMMA ConsentInvariant == ConsentSpec => []ConsentInv
BY ConsentInvInit, ConsentInvStep, PTL DEF ConsentSpec

\* The tables and the requests at work on them stay well-formed, however the
\* imports, the answers and the messages of a person interleave.
THEOREM ConsentTypeCorrect == ConsentSpec => []ConsentTypeOK
<1>1. ConsentInv => ConsentTypeOK
  BY DEF ConsentInv
<1> QED
  BY <1>1, ConsentInvariant, PTL

\* A person is marked "pending", for the platform or for an organisation, only
\* when that invitation has been committed by processMessages.
THEOREM PendingWasInvitedCorrect == ConsentSpec => []PendingWasInvited
<1>1. ConsentInv => PendingWasInvited
  BY DEF ConsentInv
<1> QED
  BY <1>1, ConsentInvariant, PTL

\* A person left "to_be_invited" is owed an invitation by an import at work or
\* by one that was cut off between its transactions.
THEOREM NobodyForgottenCorrect == ConsentSpec => []NobodyForgotten
<1>1. ConsentInv => NobodyForgotten
  BY DEF ConsentInv
<1> QED
  BY <1>1, ConsentInvariant, PTL

\* PATCH /organisation-settings refuses a well-formed answer only to a person
\* with two rows, because an import wrote the person while it was served, or
\* because one had stored the person without their profile.
THEOREM RefusedNeedsCauseCorrect == ConsentSpec => []RefusedNeedsCause
<1>1. ConsentInv => RefusedNeedsCause
  BY DEF ConsentInv
<1> QED
  BY <1>1, ConsentInvariant, PTL

\* POST /messages without bypassConsent creates a message only for a person
\* who agreed to something, or on whose behalf an organisation did.
THEOREM NobodyMessagedUnaskedCorrect == ConsentSpec => []NobodyMessagedUnasked
<1>1. ConsentInv => NobodyMessagedUnasked
  BY DEF ConsentInv, Placed, AskedFirst, NobodyMessagedUnasked
<1> QED
  BY <1>1, ConsentInvariant, PTL

-----------------------------------------------------------------------------
(* Imports that never overlap.  The turn to import is a token that passes  *)
(* from one import to the next, so an import finds the rows as the one     *)
(* before it left them.                                                    *)

OneAtATime ==
  ~ overlapped =>
    \A i, j \in Imports : pc[i] \in Working /\ pc[j] \in Working => i = j

\* Some import knew the person by nothing it shared with another one.
StrangersStored ==
  \E i, j \in Imports : {pc[i], pc[j]} \subseteq Stored /\ Strangers(i, j)

\* An import that is about to store the person has found the row there is, if
\* it has something in common with each of those before it.
RowsFound ==
  ~ overlapped =>
    \A i \in Imports :
      /\ pc[i] = "found" /\ Present # {}
      /\ \A j \in Imports : pc[j] \in Stored => ~ Strangers(i, j)
      => row[i] \in Present

Uncut == ~ overlapped /\ \A k \in Imports : pc[k] # "cut"

\* What an import knows of the welcome is still true when it writes it back,
\* and a welcome that was sent and marked is on its row.
WelcomeKnown ==
  Uncut =>
    \A i \in Imports :
      /\ pc[i] = "found" => (i \in kept <=> row[i] \in welcomed)
      /\ pc[i] \in {"read", "created"} /\ kind[i] = "welcome" => row[i] \notin welcomed
      /\ i \in mailed /\ kind[i] = "welcome" /\ pc[i] # "created" => row[i] \in welcomed

\* No row is welcomed twice.
RowWelcomedOnce ==
  \A i, j \in mailed \intersect Imports :
    i # j /\ row[i] = row[j] /\ kind[i] = "welcome" /\ kind[j] = "welcome"
    => overlapped \/ \E k \in Imports : pc[k] = "cut"

TurnsInv == OneAtATime /\ RowsFound /\ OneRowPerPerson /\ WelcomeKnown /\ RowWelcomedOnce

\* What an import that is neither at work nor begins leaves as it was.
Bystander(j) ==
  /\ pc'[j] = pc[j] /\ row'[j] = row[j] /\ kind'[j] = kind[j]
  /\ given'[j] = given[j]
  /\ hit' \intersect {j} = hit \intersect {j}
  /\ kept' \intersect {j} = kept \intersect {j}
  /\ mailed' \intersect {j} = mailed \intersect {j}

LEMMA ImportsMoveAlone ==
  ASSUME ConsentTypeOK, NEW i \in Imports, ImportStep(i)
  PROVE  \A j \in Imports \ {i} : Bystander(j)
<1> USE DEF ConsentTypeOK, tables, local, record, history, Goto, With, Bystander
<1>1. CASE \E o \in Orgs, consent, found \in BOOLEAN, from \in Records :
             FindUser(i, o, consent, from, found)
  BY <1>1 DEF FindUser
<1>2. CASE SkipRecord(i) \/ CreateInvitation(i) \/ Abort(i)
  BY <1>2 DEF SkipRecord, CreateInvitation, Abort
<1>3. CASE StoreUser(i) \/ ReadSettings(i) \/ MarkInvited(i)
  BY <1>3 DEF StoreUser, ReadSettings, MarkInvited
<1> QED
  BY <1>1, <1>2, <1>3 DEF ImportStep

\* The person's own requests and the messages to them touch neither the
\* imports nor the columns an import looks for.
LEMMA OthersLeaveImports ==
  ASSUME ConsentTypeOK, Placed, RowsComplete,
         \/ \E f \in Feedbacks : FeedbackStep(f)
         \/ \E s \in Sends : SendStep(s)
         \/ UNCHANGED consentVars
  PROVE  /\ \A i \in Imports : Bystander(i)
         /\ UNCHANGED <<linked, contacts, welcomed, overlapped>>
         /\ Present' = Present
<1> USE DEF ConsentTypeOK, tables, local, record, history, Goto, Present, Bystander
<1>1. ASSUME NEW f \in Feedbacks, Activate(f)
      PROVE  /\ \A i \in Imports : Bystander(i)
             /\ UNCHANGED <<linked, contacts, welcomed, overlapped>>
             /\ Present' = Present
  BY <1>1 DEF Activate, RowsComplete
<1>2. ASSUME NEW f \in Feedbacks,
             PickUser(f) \/ CheckFeedback(f) \/ StoreAnswer(f) \/ ReadAnswer(f)
      PROVE  /\ \A i \in Imports : Bystander(i)
             /\ UNCHANGED <<linked, contacts, welcomed, overlapped>>
             /\ Present' = Present
  BY <1>2 DEF PickUser, CheckFeedback, StoreAnswer, ReadAnswer
<1>3. ASSUME NEW s \in Sends, SendStep(s)
      PROVE  /\ \A i \in Imports : Bystander(i)
             /\ UNCHANGED <<linked, contacts, welcomed, overlapped>>
             /\ Present' = Present
  BY <1>3 DEF SendStep, CheckConsent, CreateMessage
<1>4. CASE UNCHANGED consentVars
  BY <1>4 DEF consentVars
<1> QED
  BY <1>1, <1>2, <1>3, <1>4 DEF FeedbackStep

LEMMA OthersKeepTurns ==
  ASSUME ConsentTypeOK, TurnsInv,
         \A i \in Imports : Bystander(i),
         UNCHANGED <<linked, contacts, welcomed, overlapped>>,
         Present' = Present
  PROVE  TurnsInv'
<1> USE DEF Bystander, TurnsInv
<1>1. OneAtATime'
  BY DEF OneAtATime
<1>2. \A i, j \in Imports : Strangers(i, j)' <=> Strangers(i, j)
  BY DEF Strangers
<1>3. RowsFound'
  BY <1>2 DEF RowsFound
<1>4. OneRowPerPerson'
  BY <1>2 DEF OneRowPerPerson, TwoRows
<1>5. WelcomeKnown'
  BY DEF WelcomeKnown, Uncut
<1>6. RowWelcomedOnce'
  BY DEF RowWelcomedOnce
<1> QED
  BY <1>1, <1>3, <1>4, <1>5, <1>6

\* One import at a time: who begins notices whoever is at work.
LEMMA TurnStep ==
  ASSUME ConsentTypeOK, OneAtATime, NEW i \in Imports, ImportStep(i)
  PROVE  OneAtATime'
<1> USE DEF ConsentTypeOK, OneAtATime, tables, local, record, history, Goto, Working
<1>1. CASE \E o \in Orgs, consent, found \in BOOLEAN, from \in Records :
             FindUser(i, o, consent, from, found)
  <2>1. /\ pc' = [pc EXCEPT ![i] = "found"]
        /\ overlapped' = (overlapped \/ \E j \in Imports : pc[j] \in Working)
    BY ONLY <1>1 DEF FindUser, Goto
  <2>2. pc \in [Requests -> Stages]
    OBVIOUS
  <2> QED
    BY ONLY <2>1, <2>2, OneAtATime DEF OneAtATime, Working, Requests
<1>2. CASE SkipRecord(i) \/ CreateInvitation(i) \/ Abort(i)
  BY <1>2 DEF SkipRecord, CreateInvitation, Abort
<1>3. CASE StoreUser(i) \/ ReadSettings(i) \/ MarkInvited(i)
  BY <1>3 DEF StoreUser, ReadSettings, MarkInvited
<1> QED
  BY <1>1, <1>2, <1>3 DEF ImportStep

\* Only the beginning of an import and its commit matter to the rows found.
LEMMA QuietImports ==
  ASSUME ConsentTypeOK, Placed, RowsComplete, NEW i \in Imports,
         \/ SkipRecord(i) \/ CreateInvitation(i) \/ Abort(i)
         \/ ReadSettings(i) \/ MarkInvited(i)
  PROVE  /\ \A j \in Imports :
              /\ pc'[j] \in Stored <=> pc[j] \in Stored
              /\ pc'[j] = "found" => pc[j] = "found"
         /\ Present' = Present
         /\ UNCHANGED <<linked, contacts, given, hit, row, overlapped>>
<1> USE DEF ConsentTypeOK, tables, local, record, history, Goto, Stored, Working
<1>1. CASE SkipRecord(i) \/ CreateInvitation(i) \/ Abort(i)
  BY <1>1 DEF SkipRecord, CreateInvitation, Abort, Present
<1>2. CASE ReadSettings(i)
  BY <1>2 DEF ReadSettings, Present
<1>3. CASE MarkInvited(i)
  <2>1. row[i] \in Present
    BY <1>3 DEF MarkInvited, RowsComplete
  <2>2. Present' = Present
    BY <1>3, <2>1 DEF MarkInvited, Present
  <2> QED
    BY <1>3, <2>2 DEF MarkInvited
<1> QED
  BY <1>1, <1>2, <1>3

LEMMA BeginFindsRow ==
  ASSUME ConsentTypeOK, Placed, RowsComplete, RowsWritten, RowsFound, OneRowPerPerson,
         NEW i \in Imports, NEW o \in Orgs, NEW consent \in BOOLEAN,
         NEW from \in Records, NEW found \in BOOLEAN,
         FindUser(i, o, consent, from, found)
  PROVE  RowsFound' /\ OneRowPerPerson'
<1> USE DEF ConsentTypeOK, FindUser, tables, Goto
<1>1. UNCHANGED <<status, linked, contacts>> /\ Present' = Present
  BY DEF Present
<1>2. \A j \in Imports \ {i} : Bystander(j)
  BY ImportsMoveAlone DEF ImportStep
<1>3. /\ pc[i] = "idle" /\ pc'[i] = "found"
      /\ given'[i] = from
      /\ i \in hit' <=> found
  BY DEF With
<1>4. \A j, k \in Imports \ {i} : Strangers(j, k)' <=> Strangers(j, k)
  BY <1>2 DEF Strangers, Bystander
<1>5. \A j \in Imports \ {i} : Strangers(i, j)' <=>
        ~ (found /\ j \in hit) /\ from \intersect given[j] = {}
  BY <1>2, <1>3 DEF Strangers, Bystander
<1>6. ASSUME Present # {}, \A j \in Imports : pc'[j] \in Stored => ~ Strangers(i, j)'
      PROVE  row'[i] \in Present
  <2>1. linked \subseteq Present /\ Known(from) \subseteq Present
    BY DEF RowsComplete, RowsWritten, Known
  <2>2. PICK r \in Present, j \in Imports :
          /\ pc[j] \in Stored
          /\ contacts[r] = given[j]
          /\ r \in linked <=> j \in hit
    BY <1>6 DEF RowsWritten
  <2>3. j # i /\ pc'[j] = pc[j]
    BY <1>2, <1>3, <2>2 DEF Stored, Bystander
  <2>4. (found /\ j \in hit) \/ from \intersect given[j] # {}
    BY <1>5, <1>6, <2>2, <2>3
  <2>5. r \in Rows
    BY DEF Present
  <2>6. Matches(found, from) # {}
    BY <2>2, <2>4, <2>5 DEF Matches, Known
  <2>7. row'[i] \in Matches(found, from)
    BY <2>6
  <2> QED
    BY <2>1, <2>7 DEF Matches
<1>7. overlapped => overlapped'
  BY DEF FindUser
<1>8. RowsFound'
  <2> SUFFICES ASSUME ~ overlapped', NEW k \in Imports, pc'[k] = "found", Present # {},
                      \A j \in Imports : pc'[j] \in Stored => ~ Strangers(k, j)'
               PROVE  row'[k] \in Present
    BY <1>1 DEF RowsFound
  <2>1. CASE k = i
    BY <1>6, <2>1
  <2>2. CASE k # i
    <3>1. \A j \in Imports : pc[j] \in Stored => j # i /\ pc'[j] \in Stored
      BY <1>2, <1>3 DEF Bystander, Stored
    <3>2. \A j \in Imports : pc[j] \in Stored => ~ Strangers(k, j)
      BY <1>4, <2>2, <3>1
    <3>3. pc[k] = "found" /\ row'[k] = row[k] /\ ~ overlapped
      BY <1>2, <1>7, <2>2 DEF Bystander
    <3> QED
      BY <3>2, <3>3 DEF RowsFound
  <2> QED
    BY <2>1, <2>2
<1>9. OneRowPerPerson'
  <2>1. ASSUME StrangersStored PROVE StrangersStored'
    <3>1. PICK j, k \in Imports : {pc[j], pc[k]} \subseteq Stored /\ Strangers(j, k)
      BY <2>1 DEF StrangersStored
    <3>2. j # i /\ k # i /\ pc'[j] = pc[j] /\ pc'[k] = pc[k]
      BY <1>2, <1>3, <3>1 DEF Bystander, Stored
    <3>3. Strangers(j, k)'
      BY <1>4, <3>1, <3>2
    <3> QED
      BY <3>1, <3>2, <3>3 DEF StrangersStored
  <2> QED
    BY <1>1, <1>7, <2>1 DEF OneRowPerPerson, TwoRows, StrangersStored
<1> QED
  BY <1>8, <1>9

LEMMA CommitKeepsRow ==
  ASSUME ConsentTypeOK, Placed, RowsComplete, OneAtATime, RowsFound, OneRowPerPerson,
         NEW i \in Imports, StoreUser(i)
  PROVE  RowsFound' /\ OneRowPerPerson'
<1> USE DEF ConsentTypeOK, StoreUser, Goto
<1>1. /\ pc[i] = "found" /\ pc'[i] = "imported"
      /\ row[i] \in Rows
      /\ UNCHANGED <<row, given, hit, overlapped>>
  BY DEF Placed, local, record
<1>2. \A j \in Imports \ {i} : pc'[j] = pc[j]
  OBVIOUS
<1>3. Present' = Present \union {row[i]}
  BY <1>1 DEF Present, StatusFor
<1>4. ~ overlapped => \A j \in Imports : pc'[j] # "found"
  BY <1>1, <1>2 DEF OneAtATime, Working
<1>5. RowsFound'
  BY <1>1, <1>4 DEF RowsFound
<1>6. \A j, k \in Imports : Strangers(j, k)' <=> Strangers(j, k)
  BY <1>1 DEF Strangers
<1>7. \A j \in Imports : pc[j] \in Stored => pc'[j] \in Stored
  BY <1>1, <1>2 DEF Stored
<1>8. ASSUME ~ overlapped, ~ StrangersStored'
      PROVE  ~ TwoRows'
  <2>1. \A j \in Imports : pc[j] \in Stored => ~ Strangers(i, j)
    BY <1>1, <1>6, <1>7, <1>8 DEF StrangersStored, Stored
  <2>2. Present # {} => row[i] \in Present
    BY <1>1, <1>8, <2>1 DEF RowsFound
  <2>3. ~ StrangersStored
    BY <1>6, <1>7, <1>8 DEF StrangersStored
  <2>4. \A r, t \in Present : r = t
    BY <1>8, <2>3 DEF OneRowPerPerson, TwoRows, StrangersStored
  <2> QED
    BY <1>3, <2>2, <2>4 DEF TwoRows
<1>9. OneRowPerPerson'
  BY <1>1, <1>8 DEF OneRowPerPerson, StrangersStored
<1> QED
  BY <1>5, <1>9

LEMMA RowsFoundStep ==
  ASSUME ConsentTypeOK, Placed, RowsComplete, RowsWritten, OneAtATime, RowsFound, OneRowPerPerson,
         NEW i \in Imports, ImportStep(i)
  PROVE  RowsFound' /\ OneRowPerPerson'
<1>1. ASSUME \/ SkipRecord(i) \/ CreateInvitation(i) \/ Abort(i)
             \/ ReadSettings(i) \/ MarkInvited(i)
      PROVE  RowsFound' /\ OneRowPerPerson'
  <2> DEFINE Quiet == /\ \A j \in Imports :
                           /\ pc'[j] \in Stored <=> pc[j] \in Stored
                           /\ pc'[j] = "found" => pc[j] = "found"
                      /\ Present' = Present
                      /\ UNCHANGED <<linked, contacts, given, hit, row, overlapped>>
  <2>1. Quiet
    BY <1>1, QuietImports
  <2> HIDE DEF Quiet
  <2>2. \A j, k \in Imports : Strangers(j, k)' <=> Strangers(j, k)
    BY <2>1 DEF Strangers, Quiet
  <2>3. RowsFound'
    BY <2>1, <2>2 DEF RowsFound, Quiet
  <2>4. OneRowPerPerson'
    BY <2>1, <2>2 DEF OneRowPerPerson, TwoRows, Quiet
  <2> QED
    BY <2>3, <2>4
<1> QED
  BY <1>1, BeginFindsRow, CommitKeepsRow DEF ImportStep

\* The welcome.  Only the import at work writes details.welcomed.
LEMMA WelcomeStep ==
  ASSUME ConsentTypeOK, Placed, OneAtATime, WelcomeKnown, RowWelcomedOnce,
         NEW i \in Imports, ImportStep(i)
  PROVE  WelcomeKnown' /\ RowWelcomedOnce'
<1> USE DEF ConsentTypeOK, tables, local, record, history, Goto
<1>b. \A j \in Imports \ {i} : Bystander(j)
  BY ImportsMoveAlone
<1>1. CASE \E o \in Orgs, consent, found \in BOOLEAN, from \in Records :
             FindUser(i, o, consent, from, found)
  <2>1. /\ pc[i] = "idle" /\ pc'[i] = "found"
        /\ i \in kept' <=> row'[i] \in welcomed
        /\ welcomed' = welcomed /\ mailed' = mailed
        /\ overlapped => overlapped'
    BY <1>1 DEF FindUser, With
  <2>2. i \notin mailed
    BY <2>1 DEF Placed
  <2>3. Uncut' => Uncut
    BY <1>b, <2>1 DEF Uncut, Bystander
  <2>4. \A j \in Imports \ {i} :
          /\ pc'[j] = pc[j] /\ row'[j] = row[j] /\ kind'[j] = kind[j]
          /\ (j \in kept') <=> (j \in kept)
    BY <1>b DEF Bystander
  <2>5. WelcomeKnown'
    <3> SUFFICES ASSUME Uncut', NEW j \in Imports
                 PROVE  /\ pc'[j] = "found" => ((j \in kept') <=> (row'[j] \in welcomed'))
                        /\ pc'[j] \in {"read", "created"} /\ kind'[j] = "welcome" =>
                             row'[j] \notin welcomed'
                        /\ j \in mailed' /\ kind'[j] = "welcome" /\ pc'[j] # "created" =>
                             row'[j] \in welcomed'
      BY DEF WelcomeKnown
    <3>1. CASE j = i
      BY ONLY <2>1, <2>2, <3>1
    <3>2. CASE j # i
      BY ONLY <2>1, <2>3, <2>4, <3>2, Uncut', WelcomeKnown, j \in Imports DEF WelcomeKnown
    <3> QED
      BY <3>1, <3>2
  <2>6. \A j \in mailed \intersect Imports : row'[j] = row[j] /\ kind'[j] = kind[j]
    BY <2>2, <2>4
  <2>7. \A k \in Imports : pc[k] = "cut" => pc'[k] = "cut"
    BY <2>1, <2>4
  <2>8. RowWelcomedOnce'
    BY ONLY <2>1, <2>6, <2>7, RowWelcomedOnce DEF RowWelcomedOnce
  <2> QED
    BY <2>5, <2>8
<1>2. CASE SkipRecord(i) \/ Abort(i)
  <2>1. /\ \A j \in Imports : pc[j] = "cut" => pc'[j] = "cut"
        /\ \/ pc[i] = "idle" /\ pc'[i] = "skipped"
           \/ pc[i] = "found" /\ pc'[i] = "failed"
           \/ pc'[i] = "cut"
        /\ UNCHANGED <<welcomed, mailed, kept, kind, row, overlapped>>
    BY <1>2 DEF SkipRecord, Abort, Working
  <2>2. pc'[i] # "cut" => i \notin mailed
    BY <2>1 DEF Placed
  <2>3. WelcomeKnown'
    BY <1>b, <2>1, <2>2 DEF WelcomeKnown, Uncut, Bystander
  <2>4. RowWelcomedOnce'
    BY <2>1 DEF RowWelcomedOnce
  <2> QED
    BY <2>3, <2>4
<1>3. CASE StoreUser(i)
  <2>1. /\ pc[i] = "found" /\ pc'[i] = "imported"
        /\ welcomed' = WelcomedAfter(i)
        /\ UNCHANGED <<mailed, kept, kind, row, overlapped>>
    BY <1>3 DEF StoreUser
  <2>2. Uncut => welcomed' = welcomed
    BY <2>1 DEF WelcomeKnown, WelcomedAfter, With
  <2>3. i \notin mailed
    BY <2>1 DEF Placed
  <2>4. WelcomeKnown'
    BY <1>b, <2>1, <2>2, <2>3 DEF WelcomeKnown, Uncut, Bystander
  <2>5. RowWelcomedOnce'
    BY <1>b, <2>1 DEF RowWelcomedOnce, Bystander
  <2> QED
    BY <2>4, <2>5
<1>4. CASE ReadSettings(i)
  <2>1. /\ pc[i] = "imported" /\ pc'[i] \in {"read", "done"}
        /\ kind'[i] = "welcome" => row[i] \notin welcomed
        /\ UNCHANGED <<welcomed, mailed, kept, row, overlapped>>
    BY <1>4 DEF ReadSettings, InvitationFor
  <2>2. i \notin mailed
    BY <2>1 DEF Placed
  <2>3. WelcomeKnown'
    <3>1. \A j \in Imports \ {i} : pc'[j] = pc[j] /\ kind'[j] = kind[j]
      BY <1>b DEF Bystander
    <3> QED
      BY ONLY <2>1, <2>2, <3>1, WelcomeKnown, i \in Imports DEF WelcomeKnown, Uncut
  <2>4. \A k \in Imports : pc[k] = "cut" => pc'[k] = "cut"
    BY <1>b, <2>1 DEF Bystander
  <2>5. \A j \in mailed \intersect Imports : kind'[j] = kind[j]
    BY <1>b, <2>2 DEF Bystander
  <2>6. RowWelcomedOnce'
    BY ONLY <2>1, <2>4, <2>5, RowWelcomedOnce DEF RowWelcomedOnce
  <2> QED
    BY <2>3, <2>6
<1>5. CASE CreateInvitation(i)
  <2>1. /\ pc[i] = "read" /\ pc'[i] = "created"
        /\ mailed' = mailed \union {i}
        /\ UNCHANGED <<welcomed, kept, kind, row, overlapped>>
    BY <1>5 DEF CreateInvitation
  <2>2. WelcomeKnown'
    BY <1>b, <2>1 DEF WelcomeKnown, Uncut, Bystander
  <2>3. ASSUME Uncut, NEW j \in mailed \intersect Imports, j # i,
               row[j] = row[i], kind[j] = "welcome", kind[i] = "welcome"
        PROVE  FALSE
    <3>1. pc[j] # "created"
      BY <2>1, <2>3 DEF OneAtATime, Uncut, Working
    <3>2. row[j] \in welcomed
      BY <2>3, <3>1 DEF WelcomeKnown
    <3>3. row[i] \notin welcomed
      BY <2>1, <2>3 DEF WelcomeKnown
    <3> QED
      BY <2>3, <3>2, <3>3
  <2>4. \A k \in Imports : pc[k] = "cut" => pc'[k] = "cut"
    BY <1>b, <2>1 DEF Bystander
  <2>5. RowWelcomedOnce'
    BY <2>1, <2>3, <2>4 DEF RowWelcomedOnce, Uncut
  <2> QED
    BY <2>2, <2>5
<1>6. CASE MarkInvited(i)
  <2>1. /\ pc[i] = "created" /\ pc'[i] = "done"
        /\ welcomed' = IF kind[i] = "welcome" THEN welcomed \union {row[i]}
                                              ELSE welcomed
        /\ UNCHANGED <<mailed, kept, kind, row, overlapped>>
    BY <1>6 DEF MarkInvited
  <2>2. ~ overlapped => \A j \in Imports \ {i} : pc[j] \notin Working
    BY <2>1 DEF OneAtATime, Working
  <2>3. \A j \in Imports \ {i} : pc'[j] = pc[j]
    BY <1>b DEF Bystander
  <2>4. WelcomeKnown'
    BY ONLY <2>1, <2>2, <2>3, WelcomeKnown, i \in Imports
    DEF WelcomeKnown, Uncut, Working
  <2>5. RowWelcomedOnce'
    BY <1>b, <2>1 DEF RowWelcomedOnce, Bystander
  <2> QED
    BY <2>4, <2>5
<1> QED
  BY <1>1, <1>2, <1>3, <1>4, <1>5, <1>6 DEF ImportStep

LEMMA TurnsInvStep == ConsentInv /\ TurnsInv /\ [ConsentNext]_consentVars => TurnsInv'
<1> SUFFICES ASSUME ConsentInv, TurnsInv, [ConsentNext]_consentVars
             PROVE  TurnsInv'
  OBVIOUS
<1> USE DEF ConsentInv
<1>1. CASE \E i \in Imports : ImportStep(i)
  BY <1>1, TurnStep, RowsFoundStep, WelcomeStep DEF TurnsInv
<1>2. CASE \/ \E f \in Feedbacks : FeedbackStep(f)
           \/ \E s \in Sends : SendStep(s)
           \/ UNCHANGED consentVars
  BY <1>2, OthersLeaveImports, OthersKeepTurns
<1> QED
  BY <1>1, <1>2 DEF ConsentNext

LEMMA TurnsInvariant == ConsentSpec => []TurnsInv
<1>1. ConsentInit => TurnsInv
  BY DEF ConsentInit, TurnsInv, OneAtATime, RowsFound, OneRowPerPerson, WelcomeKnown,
     RowWelcomedOnce, Present, TwoRows, Working
<1> QED
  BY <1>1, TurnsInvStep, ConsentInvariant, PTL DEF ConsentSpec

\* Imports that do not overlap keep one row per person, as long as any two of
\* them share a contact of the person or both found the profile.
THEOREM OneRowPerPersonCorrect == ConsentSpec => []OneRowPerPerson
<1>1. TurnsInv => OneRowPerPerson
  BY DEF TurnsInv
<1> QED
  BY <1>1, TurnsInvariant, PTL

\* Imports that neither overlap nor are cut off welcome a person once, as long
\* as the person has one row.
THEOREM WelcomedOnceCorrect == ConsentSpec => []WelcomedOnce
<1>1. ConsentInv /\ TurnsInv => WelcomedOnce
  <2> SUFFICES ASSUME ConsentInv, TurnsInv, ~ TwoRows,
                      NEW i \in mailed \intersect Imports,
                      NEW j \in mailed \intersect Imports,
                      i # j, kind[i] = "welcome", kind[j] = "welcome"
               PROVE  overlapped \/ \E k \in Imports : pc[k] = "cut"
    BY DEF WelcomedOnce
  <2>1. row[i] \in Present /\ row[j] \in Present
    BY DEF ConsentInv, Placed, RowsComplete, Stored
  <2>2. row[i] = row[j]
    BY <2>1 DEF TwoRows
  <2> QED
    BY <2>2 DEF TurnsInv, RowWelcomedOnce
<1> QED
  BY <1>1, TurnsInvariant, ConsentInvariant, PTL
=============================================================================
