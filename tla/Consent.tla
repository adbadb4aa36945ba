------------------------------ MODULE Consent ------------------------------
(***************************************************************************)
(* messaging-api: one person and what the organisations may send them.     *)
(*                                                                         *)
(* An organisation's import stores the person in one transaction, reads    *)
(* the settings back in a second one, commits the invitation through       *)
(* processMessages on other connections, and only then marks the person as *)
(* invited.  The person answers with PATCH /organisation-settings, which   *)
(* activates them and then stores the answer, and POST /messages checks    *)
(* both before it creates a message.  Requests interleave at every await.  *)
(*                                                                         *)
(* Nothing in the tables makes a person unique: a row of users is named    *)
(* here by the import that inserts it.                                     *)
(***************************************************************************)
CONSTANTS Orgs,
          Imports,      \* imports of one record about the person
          Feedbacks,    \* PATCH /organisation-settings of the person
          Sends,        \* POST /messages to the person, without bypassConsent
          Records,      \* the contacts a record may carry: sets of the
                        \* person's e-mails and phones
          Nobody        \* no row and no organisation

Rows == Imports
Requests == Imports \union Feedbacks \union Sends

ASSUME ConsentAssumption ==
  /\ Imports \intersect (Feedbacks \union Sends) = {}
  /\ Feedbacks \intersect Sends = {}
  /\ Nobody \notin Imports \union Orgs
  /\ {} \in Records

VARIABLES
  status,     \* users.user_status, "absent" before the row is inserted
  linked,     \* rows with a user_profile_id
  contacts,   \* users.email and users.phone
  welcomed,   \* rows with details.welcomed
  setting,    \* organisation_user_configurations.invitation_status
  pc,         \* where each request is
  org,        \* the organisation it concerns
  row,        \* the row of users it works on
  consented,  \* imports whose record has collectedConsent
  given,      \* the contacts in the record of each import
  hit,        \* imports that profile-api answered with the person's profile
  kept,       \* imports that will write details.welcomed back
  kind,       \* the invitation each import decided on
  target,     \* the row of users whose setting each feedback names
  answer,     \* what it says
  mailed,     \* requests whose message has been committed
  overlapped, \* history: an import began while another was at work
  disturbed   \* history: feedbacks during which an import wrote the person

tables == <<status, linked, contacts, welcomed, setting>>
record == <<consented, given, hit, kept, kind>>
local == <<org, row, record, target, answer>>
history == <<overlapped, disturbed>>
consentVars == <<tables, pc, local, mailed, history>>

Statuses == {"absent", "to_be_invited", "pending", "active"}
Invitation == {"none", "to_be_invited", "pending", "accepted", "declined"}
Kinds == {"none", "messaging", "organisation", "welcome"}
\* The two answers, and an acceptance that names no transport.
Answers == {"accepted", "declined", "accepted_nowhere"}
Working == {"found", "imported", "read", "created"}
Stored == {"imported", "read", "created", "done", "cut"}
Answering == {"activated", "picked", "checked", "stored"}
Stages == {"idle", "skipped", "failed", "done", "cut", "answered", "refused", "forbidden",
           "permitted", "sent"} \union Working \union Answering

ConsentTypeOK ==
  /\ status \in [Rows -> Statuses]
  /\ linked \in SUBSET Rows
  /\ contacts \in [Rows -> Records]
  /\ welcomed \in SUBSET Rows
  /\ setting \in [Rows -> [Orgs -> Invitation]]
  /\ pc \in [Requests -> Stages]
  /\ org \in [Requests -> Orgs \union {Nobody}]
  /\ row \in [Requests -> Rows \union {Nobody}]
  /\ consented \in SUBSET Imports
  /\ given \in [Imports -> Records]
  /\ hit \in SUBSET Imports
  /\ kept \in SUBSET Imports
  /\ kind \in [Imports -> Kinds]
  /\ target \in [Feedbacks -> Rows \union {Nobody}]
  /\ answer \in [Feedbacks -> Answers]
  /\ mailed \in SUBSET (Imports \union Sends)
  /\ overlapped \in BOOLEAN
  /\ disturbed \in SUBSET Feedbacks

ConsentInit ==
  /\ status = [r \in Rows |-> "absent"]
  /\ linked = {} /\ welcomed = {}
  /\ contacts = [r \in Rows |-> {}]
  /\ setting = [r \in Rows |-> [o \in Orgs |-> "none"]]
  /\ pc = [q \in Requests |-> "idle"]
  /\ org = [q \in Requests |-> Nobody]
  /\ row = [q \in Requests |-> Nobody]
  /\ consented = {} /\ hit = {} /\ kept = {}
  /\ given = [i \in Imports |-> {}]
  /\ kind = [i \in Imports |-> "none"]
  /\ target = [f \in Feedbacks |-> Nobody]
  /\ answer = [f \in Feedbacks |-> "accepted"]
  /\ mailed = {} /\ disturbed = {}
  /\ overlapped = FALSE

Goto(q, s) == pc' = [pc EXCEPT ![q] = s]
Present == {r \in Rows : status[r] # "absent"}
TwoRows == \E r, t \in Present : r # t
With(S, x, b) == IF b THEN S \union {x} ELSE S \ {x}
Disturb == disturbed' = disturbed \union {f \in Feedbacks : pc[f] \in Answering}

-----------------------------------------------------------------------------
(* POST /user-imports: store the person, then invite them.                 *)

\* getUserByContacts: one contact in common is enough.
Known(from) == {r \in Rows : contacts[r] \intersect from # {}}

\* A search that forgets to fall back on the contacts.
MistakenMatches(found, from) == IF found THEN linked ELSE Known(from)

\* By profile, else by contacts.
Matches(found, from) == IF found /\ linked # {} THEN linked ELSE Known(from)

\* LIMIT 1 returns any of several rows.  A profile-api that answers with an
\* error is read as "no such profile".
FindUser(i, o, consent, from, found) ==
  /\ pc[i] = "idle"
  /\ found \/ from # {}
  /\ org' = [org EXCEPT ![i] = o]
  /\ consented' = With(consented, i, consent)
  /\ given' = [given EXCEPT ![i] = from]
  /\ hit' = With(hit, i, found)
  /\ \E r \in Rows :
       /\ IF Matches(found, from) = {} THEN r = i ELSE r \in Matches(found, from)
       /\ row' = [row EXCEPT ![i] = r]
       /\ kept' = With(kept, i, r \in welcomed)
  /\ overlapped' = (overlapped \/ \E j \in Imports : pc[j] \in Working)
  /\ Goto(i, "found")
  /\ UNCHANGED <<tables, kind, target, answer, mailed, disturbed>>

\* A record with neither a profile nor contacts is set aside.
SkipRecord(i) ==
  /\ pc[i] = "idle"
  /\ Goto(i, "skipped")
  /\ UNCHANGED <<tables, local, mailed, history>>

\* A default as in fillUser, taken for every record without consent.
MistakenStatusFor(i) == IF i \in consented THEN "active" ELSE "pending"
StatusFor(i) == IF i \in consented THEN "active" ELSE "to_be_invited"

\* An acceptance is never taken back here, and consent overrides a refusal.
RelationAfter(s, consent) ==
  IF consent THEN "accepted" ELSE IF s = "none" THEN "to_be_invited" ELSE s

\* Forgets that the person has been welcomed.
MistakenWelcomedAfter(i) == welcomed \ {row[i]}
WelcomedAfter(i) == With(welcomed, row[i], i \in kept)

\* The commit of the import: the row written whatever it says by now, with
\* the contacts of the record and no others.
StoreUser(i) ==
  /\ pc[i] = "found"
  /\ status' = [status EXCEPT ![row[i]] = StatusFor(i)]
  /\ linked' = With(linked, row[i], i \in hit)
  /\ contacts' = [contacts EXCEPT ![row[i]] = given[i]]
  /\ welcomed' = WelcomedAfter(i)
  /\ setting' = [setting EXCEPT ![row[i]][org[i]] =
                   RelationAfter(@, i \in consented)]
  /\ Disturb
  /\ Goto(i, "imported")
  /\ UNCHANGED <<local, mailed, overlapped>>

\* Taken in the wrong order: the organisation before the platform.
MistakenInvitationFor(r, o) ==
  IF setting[r][o] = "to_be_invited" THEN "organisation"
  ELSE IF status[r] = "to_be_invited" THEN "messaging"
  ELSE IF status[r] = "active" /\ r \notin welcomed THEN "welcome" ELSE "none"

InvitationFor(r, o) ==
  IF status[r] = "to_be_invited" THEN "messaging"
  ELSE IF setting[r][o] = "to_be_invited" THEN "organisation"
  ELSE IF status[r] = "active" /\ r \notin welcomed THEN "welcome" ELSE "none"

ReadSettings(i) ==
  /\ pc[i] = "imported"
  /\ kind' = [kind EXCEPT ![i] = InvitationFor(row[i], org[i])]
  /\ Goto(i, IF kind'[i] = "none" THEN "done" ELSE "read")
  /\ UNCHANGED <<tables, org, row, consented, given, hit, kept, target,
                 answer, mailed, history>>

\* processMessages, bypassing consent, in a transaction of its own.
CreateInvitation(i) ==
  /\ pc[i] = "read"
  /\ mailed' = mailed \union {i}
  /\ Goto(i, "created")
  /\ UNCHANGED <<tables, local, history>>

\* By id alone, over whatever the person answered in the meantime.
MarkInvited(i) ==
  /\ pc[i] = "created"
  /\ status' = IF kind[i] = "messaging"
               THEN [status EXCEPT ![row[i]] = "pending"] ELSE status
  /\ setting' = IF kind[i] \in {"messaging", "organisation"}
                THEN [setting EXCEPT ![row[i]][org[i]] = "pending"]
                ELSE setting
  /\ welcomed' = IF kind[i] = "welcome"
                 THEN welcomed \union {row[i]} ELSE welcomed
  /\ Disturb
  /\ Goto(i, "done")
  /\ UNCHANGED <<linked, contacts, local, mailed, overlapped>>

\* A failing statement or call, or a dying process: the open transaction is
\* rolled back, what was committed before it stays.
Abort(i) ==
  /\ pc[i] \in Working
  /\ Goto(i, IF pc[i] = "found" THEN "failed" ELSE "cut")
  /\ UNCHANGED <<tables, local, mailed, history>>

-----------------------------------------------------------------------------
(* PATCH /organisation-settings/:id: activate the person, then store the   *)
(* answer, each on a connection of its own and without a transaction.  A   *)
(* request that fails in between is one that takes no further step.        *)

\* updateInvitationStatus: every row of the profile, or an error without one.
Activate(f) ==
  /\ pc[f] = "idle"
  /\ \E r \in Rows, o \in Orgs, a \in Answers :
       /\ setting[r][o] # "none"
       /\ target' = [target EXCEPT ![f] = r]
       /\ org' = [org EXCEPT ![f] = o]
       /\ answer' = [answer EXCEPT ![f] = a]
  /\ status' = [r \in Rows |-> IF r \in linked THEN "active" ELSE status[r]]
  /\ Goto(f, IF linked = {} THEN "refused" ELSE "activated")
  /\ UNCHANGED <<linked, contacts, welcomed, setting, row, record, mailed,
                 history>>

\* getUserByUserProfileId: any row of the profile, 404 without one.
PickUser(f) ==
  /\ pc[f] = "activated"
  /\ \/ /\ linked = {}
        /\ Goto(f, "refused")
        /\ UNCHANGED row
     \/ \E r \in linked :
          /\ row' = [row EXCEPT ![f] = r]
          /\ Goto(f, "picked")
  /\ UNCHANGED <<tables, org, record, target, answer, mailed, history>>

\* Takes answers to open invitations only, so nobody can change their mind.
MistakenAcceptable(f) ==
  /\ row[f] = target[f]
  /\ status[row[f]] = "active"
  /\ answer[f] # "accepted_nowhere"
  /\ setting[row[f]][org[f]] = "pending"

Acceptable(f) ==
  /\ row[f] = target[f]
  /\ status[row[f]] = "active"
  /\ answer[f] # "accepted_nowhere"

CheckFeedback(f) ==
  /\ pc[f] = "picked"
  /\ Goto(f, IF Acceptable(f) THEN "checked" ELSE "refused")
  /\ UNCHANGED <<tables, local, mailed, history>>

StoreAnswer(f) ==
  /\ pc[f] = "checked"
  /\ setting' = [setting EXCEPT ![target[f]][org[f]] = answer[f]]
  /\ Goto(f, "stored")
  /\ UNCHANGED <<status, linked, contacts, welcomed, local, mailed, history>>

\* The setting is read again by the profile, and may not be found any more.
ReadAnswer(f) ==
  /\ pc[f] = "stored"
  /\ \/ linked = {} /\ Goto(f, "refused")
     \/ \E r \in linked : Goto(f, IF r = target[f] THEN "answered" ELSE "refused")
  /\ UNCHANGED <<tables, local, mailed, history>>

-----------------------------------------------------------------------------
(* POST /messages without bypassConsent.                                   *)

\* Looks for a refusal instead of a missing acceptance.
MistakenForbidden(r) ==
  /\ status[r] # "active"
  /\ \E o \in Orgs : setting[r][o] = "declined"

\* The query joins its two conditions with "and", over all organisations.
Forbidden(r) ==
  /\ status[r] # "active"
  /\ \E o \in Orgs : setting[r][o] \notin {"none", "accepted"}

CheckConsent(s) ==
  /\ pc[s] = "idle"
  /\ \E r \in Present, o \in Orgs :
       /\ row' = [row EXCEPT ![s] = r]
       /\ org' = [org EXCEPT ![s] = o]
       /\ Goto(s, IF Forbidden(r) THEN "forbidden" ELSE "permitted")
  /\ UNCHANGED <<tables, record, target, answer, mailed, history>>

CreateMessage(s) ==
  /\ pc[s] = "permitted"
  /\ mailed' = mailed \union {s}
  /\ Goto(s, "sent")
  /\ UNCHANGED <<tables, local, history>>

-----------------------------------------------------------------------------
ImportStep(i) ==
  \/ \E o \in Orgs, consent, found \in BOOLEAN, from \in Records :
       FindUser(i, o, consent, from, found)
  \/ SkipRecord(i) \/ StoreUser(i) \/ ReadSettings(i)
  \/ CreateInvitation(i) \/ MarkInvited(i) \/ Abort(i)

FeedbackStep(f) ==
  \/ Activate(f) \/ PickUser(f) \/ CheckFeedback(f)
  \/ StoreAnswer(f) \/ ReadAnswer(f)

SendStep(s) == CheckConsent(s) \/ CreateMessage(s)

ConsentNext ==
  \/ \E i \in Imports : ImportStep(i)
  \/ \E f \in Feedbacks : FeedbackStep(f)
  \/ \E s \in Sends : SendStep(s)

ConsentSpec == ConsentInit /\ [][ConsentNext]_consentVars

-----------------------------------------------------------------------------
(* Properties.                                                             *)

\* Whoever is shown as "pending" has been sent the invitation they are said
\* not to have answered: the rows are marked after the message is committed.
PendingWasInvited ==
  \A r \in Rows :
    /\ status[r] = "pending" =>
         \E i \in mailed \intersect Imports : row[i] = r /\ kind[i] = "messaging"
    /\ \A o \in Orgs : setting[r][o] = "pending" =>
         \E i \in mailed \intersect Imports :
           /\ row[i] = r /\ org[i] = o
           /\ kind[i] \in {"messaging", "organisation"}

\* Import i will still invite the person of row r.
WillInvite(i, r, kinds) ==
  /\ row[i] = r
  /\ \/ pc[i] \in {"imported", "cut"}
     \/ pc[i] \in {"read", "created"} /\ kind[i] \in kinds

\* Nobody is forgotten: a row left "to_be_invited" has an import at work that
\* will invite it, or one that was cut off between its transactions.
NobodyForgotten ==
  \A r \in Rows :
    /\ status[r] = "to_be_invited" =>
         \E i \in Imports : WillInvite(i, r, {"messaging"})
    /\ \A o \in Orgs : setting[r][o] = "to_be_invited" =>
         \E i \in Imports : org[i] = o /\ WillInvite(i, r, {"messaging", "organisation"})

\* The person was asked: an import with consent stored row r, or they used
\* their settings.
Asked(r) ==
  \/ \E i \in consented : row[i] = r /\ pc[i] \in Stored
  \/ \E f \in Feedbacks : pc[f] # "idle"

\* Weak as the consent check is, nobody gets a message without bypassConsent
\* before they, or an organisation on their behalf, have agreed to anything.
NobodyMessagedUnasked ==
  \A s \in mailed \intersect Sends : Asked(row[s])

\* The records of two imports have nothing in common to know the person by.
Strangers(i, j) ==
  /\ ~ {i, j} \subseteq hit
  /\ given[i] \intersect given[j] = {}

\* A person has one row, unless imports overlapped, or two of them were told
\* of the person by nothing in common: different contacts, as one of them
\* carries only the e-mail and the other only the phone, and no profile that
\* both of them found.
OneRowPerPerson ==
  TwoRows =>
    \/ overlapped
    \/ \E i, j \in Imports : {pc[i], pc[j]} \subseteq Stored /\ Strangers(i, j)

\* A person is not welcomed twice, unless imports overlapped, the person has
\* two rows, or an import was cut off between the message and the mark.
WelcomedOnce ==
  \A i, j \in mailed \intersect Imports :
    i # j /\ kind[i] = "welcome" /\ kind[j] = "welcome"
    => overlapped \/ TwoRows \/ \E k \in Imports : pc[k] = "cut"

\* A well-formed answer is refused, even after it was stored, only if the
\* person has two rows, an import wrote the person while the request was being
\* served, or one had done so before without finding the profile.
RefusedNeedsCause ==
  \A f \in Feedbacks :
    pc[f] = "refused" =>
      \/ answer[f] = "accepted_nowhere"
      \/ TwoRows
      \/ f \in disturbed
      \/ row[f] = Nobody /\ \E i \in Imports \ hit : pc[i] \in Stored

\* messages.ts:510 and :535: without bypassConsent every receiver is active
\* and has accepted the organisation, at least when this is checked.  An
\* organisation that has nothing to do with the person is left aside.
ConsentRespected ==
  [][\A s \in Sends :
       pc[s] = "idle" /\ pc'[s] = "permitted" =>
         /\ status[row'[s]] = "active"
         /\ setting[row'[s]][org'[s]] \in {"none", "accepted"}]_consentVars
=============================================================================
