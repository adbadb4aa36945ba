--------------------------- MODULE PaymentsProofs ---------------------------
(***************************************************************************)
(* What may be said of the recorded transactions for any number of         *)
(* payments, references, events and failures, paid in any mix of ways.     *)
(***************************************************************************)
EXTENDS Payments, TLAPS

\* A page that was not opened has left no trace; a row outlives its page.
Pages ==
  \A p \in Payments :
    /\ page[p] = "new" => ref[p] = None /\ events[p] = <<>>
    /\ page[p] \in {"new", "drawn"} => p \notin rows
    /\ page[p] = "shown" => p \in rows
    /\ p \notin rows => status[p] = "initiated"

\* Two providers name their payments, the others take a reference drawn.
References ==
  \A p \in Payments :
    ref[p] \in IF method[p] \in {"stripe", "openbanking"} THEN {p, None} ELSE Refs \union {None}

StoredHaveReferences ==
  \A p \in Payments : page[p] = "drawn" \/ p \in rows => ref[p] # None

\* The events of a payment are of its provider's kinds.
KindsOf(p) ==
  CASE method[p] = "stripe" -> DOMAIN StripeStatus
    [] method[p] = "realex" -> DOMAIN RealexStatus
    [] method[p] = "openbanking" -> {"executed", "settled", "failed"}
    [] method[p] = "banktransfer" -> {"received"}

EventsFit ==
  \A p \in Payments : \A k \in DOMAIN events[p] : events[p][k] \in KindsOf(p)

\* A webhook at work is that of an event, and has found a row with its
\* reference.
HeldIsFound ==
  \A p \in Payments, k \in EventNumbers :
    notice[p][k] = "held" =>
      /\ Notified(p)
      /\ k \in DOMAIN events[p]
      /\ found[p][k] \in rows
      /\ ref[found[p][k]] = ref[p]

\* TrueLayer has given the payment up.
HasFailed(p) == \E k \in DOMAIN events[p] : events[p][k] = "failed"

\* What people are about to write they have reason to.
PeopleKnow ==
  /\ \A p \in Payments :
       seen[p] # None =>
         /\ method[p] = "openbanking" /\ p \in rows
         /\ seen[p] = "succeeded" => Paid(p) \/ p \in guessed
         /\ seen[p] # "succeeded" => p \in erred \/ HasFailed(p)
  /\ \A p \in clerk :
       /\ p \in rows /\ method[p] = "banktransfer"
       /\ \E q \in Payments : ref[q] = ref[p] /\ Paid(q)

\* Also pages that have not stored their row share no reference unnoticed.
DrawnOrStored(p) == page[p] = "drawn" \/ p \in rows

SharingIsNoticed ==
  \A p, q \in Payments :
    DrawnOrStored(p) /\ DrawnOrStored(q) /\ Shares(p, q) => ref[p] \in overlaps

PaymentsInv ==
  /\ PaymentsTypeOK
  /\ Pages
  /\ References
  /\ StoredHaveReferences
  /\ EventsFit
  /\ HeldIsFound
  /\ PeopleKnow
  /\ SharingIsNoticed
  /\ SucceededWasPaid
  /\ DeletedWasUnused

USE PaymentsAssumption

LEMMA PaymentsInvInit == PaymentsInit => PaymentsInv
<1> SUFFICES ASSUME PaymentsInit PROVE PaymentsInv
  OBVIOUS
<1> USE DEF PaymentsInit
<1>1. PaymentsTypeOK
  BY DEF PaymentsTypeOK, Statuses, EventNumbers, Kinds
<1>2. \A p \in Payments : events[p] = <<>> /\ page[p] = "new" /\ ref[p] = None
  OBVIOUS
<1>3. Pages /\ References /\ StoredHaveReferences /\ DeletedWasUnused
  BY <1>2 DEF Pages, StoredHaveReferences, References, DeletedWasUnused
<1>4. EventsFit
  BY <1>2 DEF EventsFit
<1>5. HeldIsFound
  BY DEF HeldIsFound
<1>6. PeopleKnow
  BY DEF PeopleKnow
<1>7. SharingIsNoticed
  BY <1>2 DEF SharingIsNoticed, DrawnOrStored
<1>8. SucceededWasPaid
  BY DEF SucceededWasPaid
<1>9. QED
  BY <1>1, <1>3, <1>4, <1>5, <1>6, <1>7, <1>8 DEF PaymentsInv

\* Rows, events, references and what is remembered are never taken back.
GoesOn ==
  /\ method' = method
  /\ rows \subseteq rows'
  /\ guessed \subseteq guessed' /\ erred \subseteq erred' /\ overlaps \subseteq overlaps'
  /\ \A p \in Payments : page[p] # "new" => page'[p] # "new" /\ ref'[p] = ref[p]
  /\ \A p \in Payments : \A k \in DOMAIN events[p] :
       k \in DOMAIN events'[p] /\ events'[p][k] = events[p][k]

LEMMA ItGoesOn ==
  ASSUME PaymentsInv, [PaymentsNext]_vars
  PROVE GoesOn
<1> USE DEF GoesOn
<1>t. PaymentsTypeOK /\ Pages
  BY DEF PaymentsInv
<1>1. ASSUME NEW p \in Payments, DrawReference(p) PROVE GoesOn
  BY <1>1, <1>t DEF DrawReference, vars, opening, table, webhooks, people, history, PaymentsTypeOK
<1>2. ASSUME NEW p \in Payments, OpenAtProvider(p) PROVE GoesOn
  <2>1. \A q \in Payments : q # p => events'[q] = events[q] /\ ref'[q] = ref[q] /\ page'[q] = page[q]
    BY <1>2, <1>t DEF OpenAtProvider, vars, opening, table, webhooks, people, history, PaymentsTypeOK
  <2>2. events[p] = <<>> /\ page[p] = "new"
    BY <1>2, <1>t DEF OpenAtProvider, vars, opening, table, webhooks, people, history, Pages
  <2>3. QED BY <1>2, <1>t, <2>1, <2>2 DEF OpenAtProvider, vars, opening, table, webhooks, people, history, PaymentsTypeOK
<1>3. ASSUME NEW p \in Payments, OpeningFails(p) PROVE GoesOn
  BY <1>3, <1>t DEF OpeningFails, vars, opening, table, webhooks, people, history, PaymentsTypeOK
<1>4. ASSUME NEW p \in Payments, CreateTransaction(p) PROVE GoesOn
  BY <1>4, <1>t DEF CreateTransaction, vars, opening, table, webhooks, people, history, PaymentsTypeOK
<1>5. ASSUME NEW p \in Payments, ProviderEvent(p) PROVE GoesOn
  <2>1. PICK e \in Outcomes(p) : events' = [events EXCEPT ![p] = Append(@, e)]
    BY <1>5 DEF ProviderEvent, vars, opening, table, webhooks, people, history
  <2>2. events[p] \in Seq(Kinds)
    BY <1>t DEF PaymentsTypeOK
  <2>3. \A k \in DOMAIN events[p] : k \in DOMAIN Append(events[p], e) /\ Append(events[p], e)[k] = events[p][k]
    BY <2>2
  <2>4. QED BY <1>5, <1>t, <2>1, <2>3 DEF ProviderEvent, vars, opening, table, webhooks, people, history, PaymentsTypeOK
<1>6. ASSUME NEW p \in Payments, Return(p) PROVE GoesOn
  BY <1>6, <1>t DEF Return, vars, opening, table, webhooks, people, history, PaymentsTypeOK
<1>7. ASSUME NEW p \in Payments, Complete(p) PROVE GoesOn
  BY <1>7, <1>t DEF Complete, vars, opening, table, webhooks, people, history, PaymentsTypeOK
<1>8. ASSUME NEW p \in Payments, ConfirmPayment(p) PROVE GoesOn
  BY <1>8, <1>t DEF ConfirmPayment, vars, opening, table, webhooks, people, history, PaymentsTypeOK
<1>9. ASSUME NEW p \in Payments, OpenTransaction(p) PROVE GoesOn
  BY <1>9, <1>t DEF OpenTransaction, vars, opening, table, webhooks, people, history, PaymentsTypeOK
<1>10. ASSUME NEW p \in Payments, ConfirmTransaction(p) PROVE GoesOn
  BY <1>10, <1>t DEF ConfirmTransaction, vars, opening, table, webhooks, people, history, PaymentsTypeOK
<1>11. ASSUME NEW p \in Payments, NEW k \in EventNumbers, LookUp(p, k) PROVE GoesOn
  BY <1>11, <1>t DEF LookUp, vars, opening, table, webhooks, people, history, PaymentsTypeOK
<1>12. ASSUME NEW p \in Payments, NEW k \in EventNumbers, UpdateStatus(p, k) PROVE GoesOn
  BY <1>12, <1>t DEF UpdateStatus, vars, opening, table, webhooks, people, history, PaymentsTypeOK
<1>13. ASSUME NEW p \in Payments, NEW k \in EventNumbers, WebhookFails(p, k) PROVE GoesOn
  BY <1>13, <1>t DEF WebhookFails, vars, opening, table, webhooks, people, history, PaymentsTypeOK
<1>14. ASSUME CountTransactions PROVE GoesOn
  BY <1>14, <1>t DEF CountTransactions, vars, opening, table, webhooks, people, history, PaymentsTypeOK
<1>15. ASSUME DeleteRequest PROVE GoesOn
  BY <1>15, <1>t DEF DeleteRequest, vars, opening, table, webhooks, people, history, PaymentsTypeOK
<1>16. CASE UNCHANGED vars
  BY <1>16 DEF vars, opening, table, webhooks, people, history
<1>17. QED BY <1>1, <1>2, <1>3, <1>4, <1>5, <1>6, <1>7, <1>8, <1>9, <1>10, <1>11, <1>12, <1>13, <1>14, <1>15, <1>16 DEF PaymentsNext

\* What was paid stays paid, and what shares a reference goes on sharing it.
LEMMA PaidGoesOn ==
  ASSUME PaymentsInv, GoesOn
  PROVE  /\ \A p \in Payments : Paid(p) => Paid(p)' /\ page[p] # "new"
         /\ \A p \in rows : p \in Payments /\ page[p] # "new" /\ ref'[p] = ref[p]
<1>1. \A p \in Payments : Paid(p) => Paid(p)' /\ page[p] # "new"
  <2> SUFFICES ASSUME NEW p \in Payments, Paid(p) PROVE Paid(p)' /\ page[p] # "new"
    OBVIOUS
  <2>1. PICK k \in DOMAIN events[p] : events[p][k] \in MoneyKinds
    BY DEF Paid
  <2>2. k \in DOMAIN events'[p] /\ events'[p][k] = events[p][k]
    BY <2>1 DEF GoesOn
  <2>3. page[p] # "new"
    BY <2>1 DEF PaymentsInv, Pages
  <2>4. QED
    BY <2>1, <2>2, <2>3 DEF Paid
<1>2. \A p \in rows : p \in Payments /\ page[p] # "new" /\ ref'[p] = ref[p]
  BY DEF PaymentsInv, Pages, PaymentsTypeOK, GoesOn
<1>3. QED
  BY <1>1, <1>2

\* What a reader makes of an event of its provider.
LEMMA StatusForFits ==
  ASSUME PaymentsTypeOK, EventsFit, NEW p \in Payments, Notified(p), NEW k \in DOMAIN events[p]
  PROVE  /\ StatusFor(p, k) \in Statuses \union {None}
         /\ StatusFor(p, k) = "succeeded" => events[p][k] \in MoneyKinds
<1>1. CASE method[p] = "stripe"
  <2>1. events[p][k] \in DOMAIN StripeStatus
    BY <1>1 DEF EventsFit, KindsOf
  <2>2. QED
    BY <1>1, <2>1 DEF StatusFor, StripeStatus, Statuses, MoneyKinds
<1>2. CASE method[p] = "realex"
  <2>1. events[p][k] \in DOMAIN RealexStatus
    BY <1>2 DEF EventsFit, KindsOf
  <2>2. QED
    BY <1>2, <2>1 DEF StatusFor, RealexStatus, Statuses, MoneyKinds
<1>3. QED
  BY <1>1, <1>2 DEF Notified

LEMMA InternalStatusFits ==
  ASSUME PaymentsTypeOK, EventsFit, NEW p \in Payments, method[p] = "openbanking"
  PROVE  InternalStatus(p) \in Statuses
<1>1. events[p] \in Seq(Kinds)
  BY DEF PaymentsTypeOK
<1>2. CASE events[p] = <<>>
  BY <1>2 DEF InternalStatus, Answer, TrueLayerStatus, Statuses
<1>3. CASE events[p] # <<>>
  <2>1. 1 \in DOMAIN events[p]
    BY <1>1, <1>3
  <2>2. events[p][1] \in {"executed", "settled", "failed"}
    BY <2>1 DEF EventsFit, KindsOf
  <2>3. QED
    BY <1>3, <2>2 DEF InternalStatus, Answer, TrueLayerStatus, Statuses
<1>4. QED
  BY <1>2, <1>3

LEMMA NoSuccessNoMoney ==
  ASSUME PaymentsTypeOK, EventsFit, NEW p \in Payments, method[p] = "openbanking",
         InternalStatus(p) # "succeeded"
  PROVE  HasFailed(p)
<1>1. events[p] \in Seq(Kinds)
  BY DEF PaymentsTypeOK
<1>2. events[p] # <<>>
  BY DEF InternalStatus, Answer, TrueLayerStatus
<1>3. 1 \in DOMAIN events[p]
  BY <1>1, <1>2
<1>4. events[p][1] \in {"executed", "settled", "failed"}
  BY <1>3 DEF EventsFit, KindsOf
<1>5. events[p][1] = "failed"
  BY <1>2, <1>4 DEF InternalStatus, Answer, TrueLayerStatus
<1>6. QED
  BY <1>3, <1>5 DEF HasFailed

LEMMA PaymentsTypeStep ==
  ASSUME PaymentsInv, [PaymentsNext]_vars
  PROVE PaymentsTypeOK'
<1>t. PaymentsTypeOK /\ EventsFit /\ HeldIsFound /\ PeopleKnow /\ Pages
  BY DEF PaymentsInv
<1> USE DEF PaymentsTypeOK
<1>1. ASSUME NEW p \in Payments, DrawReference(p) PROVE PaymentsTypeOK'
  BY <1>1, <1>t DEF DrawReference, vars, opening, table, webhooks, people, history
<1>2. ASSUME NEW p \in Payments, OpenAtProvider(p) PROVE PaymentsTypeOK'
  <2>1. <<"created">> \in Seq(Kinds)
    BY DEF Kinds, StripeStatus
  <2>2. QED
    BY <1>2, <1>t, <2>1 DEF OpenAtProvider, vars, opening, table, webhooks, people, history
<1>3. ASSUME NEW p \in Payments, OpeningFails(p) PROVE PaymentsTypeOK'
  BY <1>3, <1>t DEF OpeningFails, vars, opening, table, webhooks, people, history
<1>4. ASSUME NEW p \in Payments, CreateTransaction(p) PROVE PaymentsTypeOK'
  BY <1>4, <1>t DEF CreateTransaction, vars, opening, table, webhooks, people, history
<1>5. ASSUME NEW p \in Payments, ProviderEvent(p) PROVE PaymentsTypeOK'
  <2>1. PICK e \in Outcomes(p) : events' = [events EXCEPT ![p] = Append(@, e)]
    BY <1>5 DEF ProviderEvent, vars, opening, table, webhooks, people, history
  <2>2. method[p] \in Methods
    BY <1>t
  <2>3. e \in Kinds
    BY <2>1, <2>2 DEF Outcomes, Kinds, Methods, StripeStatus, RealexStatus, TrueLayerStatus
  <2>4. Append(events[p], e) \in Seq(Kinds)
    BY <1>t, <2>3
  <2>5. QED
    BY <1>5, <1>t, <2>1, <2>4 DEF ProviderEvent, vars, opening, table, webhooks, people, history
<1>6. ASSUME NEW p \in Payments, Return(p) PROVE PaymentsTypeOK'
  <2>1. InternalStatus(p) \in Statuses
    BY <1>6, <1>t, InternalStatusFits DEF Return
  <2>2. "failed" \in Statuses
    BY DEF Statuses
  <2>a. PICK s \in Statuses : seen' = [seen EXCEPT ![p] = s]
    BY <1>6, <2>1, <2>2 DEF Return
  <2>3. seen' \in [Payments -> Statuses \union {None}]
    BY <1>t, <2>a
  <2>4. guessed' \in SUBSET Payments /\ erred' \in SUBSET Payments
    BY <1>6, <1>t DEF Return
  <2>5. QED
    BY <1>6, <1>t, <2>3, <2>4 DEF Return, vars, opening, table, webhooks, people, history
<1>7. ASSUME NEW p \in Payments, Complete(p) PROVE PaymentsTypeOK'
  <2>1. seen[p] \in Statuses
    BY <1>7, <1>t DEF Complete
  <2>2. QED
    BY <1>7, <1>t, <2>1 DEF Complete, vars, opening, table, webhooks, people, history, SameReference
<1>8. ASSUME NEW p \in Payments, ConfirmPayment(p) PROVE PaymentsTypeOK'
  BY <1>8, <1>t DEF ConfirmPayment, vars, opening, table, webhooks, people, history, Statuses
<1>9. ASSUME NEW p \in Payments, OpenTransaction(p) PROVE PaymentsTypeOK'
  BY <1>9, <1>t DEF OpenTransaction, vars, opening, table, webhooks, people, history
<1>10. ASSUME NEW p \in Payments, ConfirmTransaction(p) PROVE PaymentsTypeOK'
  BY <1>10, <1>t DEF ConfirmTransaction, vars, opening, table, webhooks, people, history, Statuses
<1>11. ASSUME NEW p \in Payments, NEW k \in EventNumbers, LookUp(p, k) PROVE PaymentsTypeOK'
  <2>1. notice' \in [Payments -> [EventNumbers -> {"due", "held", "heard"}]]
    BY <1>11, <1>t DEF LookUp
  <2>2. found' \in [Payments -> [EventNumbers -> Payments \union {None}]]
    BY <1>11, <1>t DEF LookUp, SameReference
  <2>3. QED
    BY <1>11, <1>t, <2>1, <2>2 DEF LookUp, vars, opening, table, webhooks, people, history
<1>12. ASSUME NEW p \in Payments, NEW k \in EventNumbers, UpdateStatus(p, k) PROVE PaymentsTypeOK'
  <2>1. Notified(p) /\ k \in DOMAIN events[p] /\ found[p][k] \in rows
    BY <1>12, <1>t DEF UpdateStatus, HeldIsFound
  <2>2. StatusFor(p, k) \in Statuses \union {None}
    BY <1>t, <2>1, StatusForFits
  <2>4. notice' \in [Payments -> [EventNumbers -> {"due", "held", "heard"}]]
    BY <1>12, <1>t DEF UpdateStatus
  <2>5. found' \in [Payments -> [EventNumbers -> Payments \union {None}]]
    BY <1>12, <1>t DEF UpdateStatus
  <2>c. CASE StatusFor(p, k) = None
    <3>1. UNCHANGED <<status, newest, late>>
      BY <1>12, <2>c DEF UpdateStatus
    <3>2. QED
      BY <1>12, <1>t, <2>4, <2>5, <3>1 DEF UpdateStatus, vars, opening, table, webhooks, people, history
  <2>d. CASE StatusFor(p, k) # None
    <3>1. status' = [status EXCEPT ![found[p][k]] = StatusFor(p, k)]
      BY <1>12, <2>d DEF UpdateStatus
    <3>2. newest' = newest \/ newest' = [newest EXCEPT ![p] = k]
      BY <1>12, <2>d DEF UpdateStatus
    <3>3. late' = late \/ late' = late \union {found[p][k]}
      BY <1>12, <2>d DEF UpdateStatus
    <3>4. status' \in [Payments -> Statuses]
      BY <1>t, <2>1, <2>2, <2>d, <3>1
    <3>k. k \in 0 .. MaxEvents
      BY DEF EventNumbers
    <3>5. newest' \in [Payments -> 0 .. MaxEvents]
      <4>1. newest \in [Payments -> 0 .. MaxEvents]
        BY <1>t
      <4>2. CASE newest' = newest
        BY <4>1, <4>2
      <4>3. CASE newest' = [newest EXCEPT ![p] = k]
        BY <4>1, <4>3, <3>k
      <4>4. QED
        BY <4>2, <4>3, <3>2
    <3>6. late' \in SUBSET Payments
      BY <1>t, <2>1, <3>3
    <3>7. QED
      BY <1>12, <1>t, <2>4, <2>5, <3>4, <3>5, <3>6 DEF UpdateStatus, vars, opening, table, webhooks, people, history
  <2>8. QED
    BY <2>c, <2>d
<1>13. ASSUME NEW p \in Payments, NEW k \in EventNumbers, WebhookFails(p, k) PROVE PaymentsTypeOK'
  <2>1. notice' \in [Payments -> [EventNumbers -> {"due", "held", "heard"}]]
    BY <1>13, <1>t DEF WebhookFails
  <2>2. found' \in [Payments -> [EventNumbers -> Payments \union {None}]]
    BY <1>13, <1>t DEF WebhookFails
  <2>3. QED
    BY <1>13, <1>t, <2>1, <2>2 DEF WebhookFails, vars, opening, table, webhooks, people, history
<1>14. ASSUME CountTransactions PROVE PaymentsTypeOK'
  BY <1>14, <1>t DEF CountTransactions, vars, opening, table, webhooks, people, history
<1>15. ASSUME DeleteRequest PROVE PaymentsTypeOK'
  BY <1>15, <1>t DEF DeleteRequest, vars, opening, table, webhooks, people, history
<1>16. CASE UNCHANGED vars
  BY <1>16, <1>t DEF vars, opening, table, webhooks, people, history
<1>17. QED BY <1>1, <1>2, <1>3, <1>4, <1>5, <1>6, <1>7, <1>8, <1>9, <1>10, <1>11, <1>12, <1>13, <1>14, <1>15, <1>16 DEF PaymentsNext

LEMMA ElementsOfAppend ==
  ASSUME NEW S, NEW T, NEW s \in Seq(S), NEW e \in S, e \in T,
         \A k \in DOMAIN s : s[k] \in T
  PROVE  \A k \in DOMAIN Append(s, e) : Append(s, e)[k] \in T
<1>1. DOMAIN s = 1 .. Len(s) /\ DOMAIN Append(s, e) = 1 .. Len(s) + 1 /\ Len(s) \in Nat
  OBVIOUS
<1>2. \A k \in 1 .. Len(s) : Append(s, e)[k] = s[k]
  OBVIOUS
<1>3. Append(s, e)[Len(s) + 1] = e
  OBVIOUS
<1>4. QED
  BY <1>1, <1>2, <1>3

LEMMA PagesStep ==
  ASSUME PaymentsInv, [PaymentsNext]_vars, PaymentsTypeOK'
  PROVE Pages'
<1>t. PaymentsTypeOK /\ Pages /\ HeldIsFound /\ PeopleKnow
  BY DEF PaymentsInv
<1> USE DEF Pages, PaymentsTypeOK
<1>1. ASSUME NEW p \in Payments, DrawReference(p) PROVE Pages'
  BY <1>1, <1>t DEF DrawReference, vars, opening, table, webhooks, people, history
<1>2. ASSUME NEW p \in Payments, OpenAtProvider(p) PROVE Pages'
  BY <1>2, <1>t DEF OpenAtProvider, vars, opening, table, webhooks, people, history
<1>3. ASSUME NEW p \in Payments, OpeningFails(p) PROVE Pages'
  BY <1>3, <1>t DEF OpeningFails, vars, opening, table, webhooks, people, history
<1>4. ASSUME NEW p \in Payments, CreateTransaction(p) PROVE Pages'
  BY <1>4, <1>t DEF CreateTransaction, vars, opening, table, webhooks, people, history, DrawReference
<1>5. ASSUME NEW p \in Payments, ProviderEvent(p) PROVE Pages'
  BY <1>5, <1>t DEF ProviderEvent, vars, opening, table, webhooks, people, history
<1>6. ASSUME NEW p \in Payments, Return(p) PROVE Pages'
  BY <1>6, <1>t DEF Return, vars, opening, table, webhooks, people, history
<1>7. ASSUME NEW p \in Payments, Complete(p) PROVE Pages'
  BY <1>7, <1>t DEF Complete, vars, opening, table, webhooks, people, history, SameReference
<1>8. ASSUME NEW p \in Payments, ConfirmPayment(p) PROVE Pages'
  BY <1>8, <1>t DEF ConfirmPayment, vars, opening, table, webhooks, people, history
<1>9. ASSUME NEW p \in Payments, OpenTransaction(p) PROVE Pages'
  BY <1>9, <1>t DEF OpenTransaction, vars, opening, table, webhooks, people, history
<1>10. ASSUME NEW p \in Payments, ConfirmTransaction(p) PROVE Pages'
  BY <1>10, <1>t DEF ConfirmTransaction, vars, opening, table, webhooks, people, history, PeopleKnow
<1>11. ASSUME NEW p \in Payments, NEW k \in EventNumbers, LookUp(p, k) PROVE Pages'
  BY <1>11, <1>t DEF LookUp, vars, opening, table, webhooks, people, history
<1>12. ASSUME NEW p \in Payments, NEW k \in EventNumbers, UpdateStatus(p, k) PROVE Pages'
  <2>1. found[p][k] \in rows
    BY <1>12, <1>t DEF UpdateStatus, HeldIsFound
  <2>2. \A q \in Payments : q \notin rows => status'[q] = status[q]
    BY <1>12, <1>t, <2>1 DEF UpdateStatus, vars, opening, table, webhooks, people, history
  <2>3. QED
    BY <1>12, <1>t, <2>2 DEF UpdateStatus, vars, opening, table, webhooks, people, history
<1>13. ASSUME NEW p \in Payments, NEW k \in EventNumbers, WebhookFails(p, k) PROVE Pages'
  BY <1>13, <1>t DEF WebhookFails, vars, opening, table, webhooks, people, history
<1>14. ASSUME CountTransactions PROVE Pages'
  BY <1>14, <1>t DEF CountTransactions, vars, opening, table, webhooks, people, history
<1>15. ASSUME DeleteRequest PROVE Pages'
  BY <1>15, <1>t DEF DeleteRequest, vars, opening, table, webhooks, people, history
<1>16. CASE UNCHANGED vars
  BY <1>16, <1>t DEF vars, opening, table, webhooks, people, history
<1>17. QED BY <1>1, <1>2, <1>3, <1>4, <1>5, <1>6, <1>7, <1>8, <1>9, <1>10, <1>11, <1>12, <1>13, <1>14, <1>15, <1>16 DEF PaymentsNext

LEMMA ReferencesStep ==
  ASSUME PaymentsInv, [PaymentsNext]_vars, PaymentsTypeOK'
  PROVE References'
<1>t. PaymentsTypeOK /\ References
  BY DEF PaymentsInv
<1> USE DEF References, PaymentsTypeOK
<1>1. ASSUME NEW p \in Payments, DrawReference(p) PROVE References'
  BY <1>1, <1>t DEF DrawReference, vars, opening, table, webhooks, people, history
<1>2. ASSUME NEW p \in Payments, OpenAtProvider(p) PROVE References'
  BY <1>2, <1>t DEF OpenAtProvider, vars, opening, table, webhooks, people, history
<1>3. ASSUME NEW p \in Payments, OpeningFails(p) PROVE References'
  BY <1>3, <1>t DEF OpeningFails, vars, opening, table, webhooks, people, history
<1>4. ASSUME NEW p \in Payments, CreateTransaction(p) PROVE References'
  BY <1>4, <1>t DEF CreateTransaction, vars, opening, table, webhooks, people, history
<1>5. ASSUME NEW p \in Payments, ProviderEvent(p) PROVE References'
  BY <1>5, <1>t DEF ProviderEvent, vars, opening, table, webhooks, people, history
<1>6. ASSUME NEW p \in Payments, Return(p) PROVE References'
  BY <1>6, <1>t DEF Return, vars, opening, table, webhooks, people, history
<1>7. ASSUME NEW p \in Payments, Complete(p) PROVE References'
  BY <1>7, <1>t DEF Complete, vars, opening, table, webhooks, people, history
<1>8. ASSUME NEW p \in Payments, ConfirmPayment(p) PROVE References'
  BY <1>8, <1>t DEF ConfirmPayment, vars, opening, table, webhooks, people, history
<1>9. ASSUME NEW p \in Payments, OpenTransaction(p) PROVE References'
  BY <1>9, <1>t DEF OpenTransaction, vars, opening, table, webhooks, people, history
<1>10. ASSUME NEW p \in Payments, ConfirmTransaction(p) PROVE References'
  BY <1>10, <1>t DEF ConfirmTransaction, vars, opening, table, webhooks, people, history
<1>11. ASSUME NEW p \in Payments, NEW k \in EventNumbers, LookUp(p, k) PROVE References'
  BY <1>11, <1>t DEF LookUp, vars, opening, table, webhooks, people, history
<1>12. ASSUME NEW p \in Payments, NEW k \in EventNumbers, UpdateStatus(p, k) PROVE References'
  BY <1>12, <1>t DEF UpdateStatus, vars, opening, table, webhooks, people, history
<1>13. ASSUME NEW p \in Payments, NEW k \in EventNumbers, WebhookFails(p, k) PROVE References'
  BY <1>13, <1>t DEF WebhookFails, vars, opening, table, webhooks, people, history
<1>14. ASSUME CountTransactions PROVE References'
  BY <1>14, <1>t DEF CountTransactions, vars, opening, table, webhooks, people, history
<1>15. ASSUME DeleteRequest PROVE References'
  BY <1>15, <1>t DEF DeleteRequest, vars, opening, table, webhooks, people, history
<1>16. CASE UNCHANGED vars
  BY <1>16, <1>t DEF vars, opening, table, webhooks, people, history
<1>17. QED BY <1>1, <1>2, <1>3, <1>4, <1>5, <1>6, <1>7, <1>8, <1>9, <1>10, <1>11, <1>12, <1>13, <1>14, <1>15, <1>16 DEF PaymentsNext

LEMMA StoredHaveReferencesStep ==
  ASSUME PaymentsInv, [PaymentsNext]_vars, PaymentsTypeOK'
  PROVE StoredHaveReferences'
<1>t. PaymentsTypeOK /\ StoredHaveReferences /\ Pages
  BY DEF PaymentsInv
<1> USE DEF StoredHaveReferences, Pages, PaymentsTypeOK
<1>1. ASSUME NEW p \in Payments, DrawReference(p) PROVE StoredHaveReferences'
  BY <1>1, <1>t DEF DrawReference, vars, opening, table, webhooks, people, history
<1>2. ASSUME NEW p \in Payments, OpenAtProvider(p) PROVE StoredHaveReferences'
  BY <1>2, <1>t DEF OpenAtProvider, vars, opening, table, webhooks, people, history
<1>3. ASSUME NEW p \in Payments, OpeningFails(p) PROVE StoredHaveReferences'
  BY <1>3, <1>t DEF OpeningFails, vars, opening, table, webhooks, people, history
<1>4. ASSUME NEW p \in Payments, CreateTransaction(p) PROVE StoredHaveReferences'
  BY <1>4, <1>t DEF CreateTransaction, vars, opening, table, webhooks, people, history
<1>5. ASSUME NEW p \in Payments, ProviderEvent(p) PROVE StoredHaveReferences'
  BY <1>5, <1>t DEF ProviderEvent, vars, opening, table, webhooks, people, history
<1>6. ASSUME NEW p \in Payments, Return(p) PROVE StoredHaveReferences'
  BY <1>6, <1>t DEF Return, vars, opening, table, webhooks, people, history
<1>7. ASSUME NEW p \in Payments, Complete(p) PROVE StoredHaveReferences'
  BY <1>7, <1>t DEF Complete, vars, opening, table, webhooks, people, history
<1>8. ASSUME NEW p \in Payments, ConfirmPayment(p) PROVE StoredHaveReferences'
  BY <1>8, <1>t DEF ConfirmPayment, vars, opening, table, webhooks, people, history
<1>9. ASSUME NEW p \in Payments, OpenTransaction(p) PROVE StoredHaveReferences'
  BY <1>9, <1>t DEF OpenTransaction, vars, opening, table, webhooks, people, history
<1>10. ASSUME NEW p \in Payments, ConfirmTransaction(p) PROVE StoredHaveReferences'
  BY <1>10, <1>t DEF ConfirmTransaction, vars, opening, table, webhooks, people, history
<1>11. ASSUME NEW p \in Payments, NEW k \in EventNumbers, LookUp(p, k) PROVE StoredHaveReferences'
  BY <1>11, <1>t DEF LookUp, vars, opening, table, webhooks, people, history
<1>12. ASSUME NEW p \in Payments, NEW k \in EventNumbers, UpdateStatus(p, k) PROVE StoredHaveReferences'
  BY <1>12, <1>t DEF UpdateStatus, vars, opening, table, webhooks, people, history
<1>13. ASSUME NEW p \in Payments, NEW k \in EventNumbers, WebhookFails(p, k) PROVE StoredHaveReferences'
  BY <1>13, <1>t DEF WebhookFails, vars, opening, table, webhooks, people, history
<1>14. ASSUME CountTransactions PROVE StoredHaveReferences'
  BY <1>14, <1>t DEF CountTransactions, vars, opening, table, webhooks, people, history
<1>15. ASSUME DeleteRequest PROVE StoredHaveReferences'
  BY <1>15, <1>t DEF DeleteRequest, vars, opening, table, webhooks, people, history
<1>16. CASE UNCHANGED vars
  BY <1>16, <1>t DEF vars, opening, table, webhooks, people, history
<1>17. QED BY <1>1, <1>2, <1>3, <1>4, <1>5, <1>6, <1>7, <1>8, <1>9, <1>10, <1>11, <1>12, <1>13, <1>14, <1>15, <1>16 DEF PaymentsNext

LEMMA EventsFitStep ==
  ASSUME PaymentsInv, [PaymentsNext]_vars, PaymentsTypeOK'
  PROVE EventsFit'
<1>t. PaymentsTypeOK /\ EventsFit /\ Pages
  BY DEF PaymentsInv
<1> USE DEF EventsFit
<1>1. ASSUME NEW p \in Payments, DrawReference(p) PROVE EventsFit'
  BY <1>1, <1>t DEF DrawReference, vars, opening, table, webhooks, people, history, KindsOf
<1>2. ASSUME NEW p \in Payments, OpenAtProvider(p) PROVE EventsFit'
  <2>1. method' = method
    BY <1>2 DEF OpenAtProvider, vars, opening, table, webhooks, people, history
  <2>2. \A q \in Payments : events'[q] = events[q] \/ (method[q] = "stripe" /\ events'[q] = <<"created">>)
    BY <1>2, <1>t DEF OpenAtProvider, vars, opening, table, webhooks, people, history, PaymentsTypeOK
  <2>3. "created" \in DOMAIN StripeStatus
    BY DEF StripeStatus
  <2>4. \A k \in DOMAIN <<"created">> : <<"created">>[k] = "created"
    OBVIOUS
  <2>5. \A q \in Payments : method[q] = "stripe" /\ events'[q] = <<"created">> => \A k \in DOMAIN events'[q] : events'[q][k] \in DOMAIN StripeStatus
    BY <2>3, <2>4
  <2>6. QED
    BY <1>t, <2>1, <2>2, <2>5 DEF KindsOf
<1>3. ASSUME NEW p \in Payments, OpeningFails(p) PROVE EventsFit'
  BY <1>3, <1>t DEF OpeningFails, vars, opening, table, webhooks, people, history, KindsOf
<1>4. ASSUME NEW p \in Payments, CreateTransaction(p) PROVE EventsFit'
  BY <1>4, <1>t DEF CreateTransaction, vars, opening, table, webhooks, people, history, KindsOf
<1>5. ASSUME NEW p \in Payments, ProviderEvent(p) PROVE EventsFit'
  <2>1. method' = method
    BY <1>5 DEF ProviderEvent, vars, opening, table, webhooks, people, history
  <2>2. PICK e \in Outcomes(p) : events' = [events EXCEPT ![p] = Append(@, e)]
    BY <1>5 DEF ProviderEvent
  <2>3. method[p] \in Methods /\ events[p] \in Seq(Kinds)
    BY <1>t DEF PaymentsTypeOK
  <2>4. e \in KindsOf(p)
    BY <2>2, <2>3 DEF Outcomes, Methods, KindsOf, StripeStatus
  <2>b. e \in Kinds
    BY <2>2, <2>3 DEF Outcomes, Methods, Kinds, StripeStatus, RealexStatus, TrueLayerStatus
  <2>c. \A k \in DOMAIN events[p] : events[p][k] \in KindsOf(p)
    BY <1>t
  <2>5. \A k \in DOMAIN Append(events[p], e) : Append(events[p], e)[k] \in KindsOf(p)
    BY <2>3, <2>4, <2>b, <2>c, ElementsOfAppend
  <2>6. \A q \in Payments : events'[q] = IF q = p THEN Append(events[p], e) ELSE events[q]
    BY <1>t, <2>2 DEF PaymentsTypeOK
  <2>k. \A q \in Payments : KindsOf(q)' = KindsOf(q)
    BY <2>1 DEF KindsOf
  <2>7. QED
    BY <1>t, <2>5, <2>6, <2>k
<1>6. ASSUME NEW p \in Payments, Return(p) PROVE EventsFit'
  BY <1>6, <1>t DEF Return, vars, opening, table, webhooks, people, history, KindsOf
<1>7. ASSUME NEW p \in Payments, Complete(p) PROVE EventsFit'
  BY <1>7, <1>t DEF Complete, vars, opening, table, webhooks, people, history, KindsOf
<1>8. ASSUME NEW p \in Payments, ConfirmPayment(p) PROVE EventsFit'
  BY <1>8, <1>t DEF ConfirmPayment, vars, opening, table, webhooks, people, history, KindsOf
<1>9. ASSUME NEW p \in Payments, OpenTransaction(p) PROVE EventsFit'
  BY <1>9, <1>t DEF OpenTransaction, vars, opening, table, webhooks, people, history, KindsOf
<1>10. ASSUME NEW p \in Payments, ConfirmTransaction(p) PROVE EventsFit'
  BY <1>10, <1>t DEF ConfirmTransaction, vars, opening, table, webhooks, people, history, KindsOf
<1>11. ASSUME NEW p \in Payments, NEW k \in EventNumbers, LookUp(p, k) PROVE EventsFit'
  BY <1>11, <1>t DEF LookUp, vars, opening, table, webhooks, people, history, KindsOf
<1>12. ASSUME NEW p \in Payments, NEW k \in EventNumbers, UpdateStatus(p, k) PROVE EventsFit'
  BY <1>12, <1>t DEF UpdateStatus, vars, opening, table, webhooks, people, history, KindsOf
<1>13. ASSUME NEW p \in Payments, NEW k \in EventNumbers, WebhookFails(p, k) PROVE EventsFit'
  BY <1>13, <1>t DEF WebhookFails, vars, opening, table, webhooks, people, history, KindsOf
<1>14. ASSUME CountTransactions PROVE EventsFit'
  BY <1>14, <1>t DEF CountTransactions, vars, opening, table, webhooks, people, history, KindsOf
<1>15. ASSUME DeleteRequest PROVE EventsFit'
  BY <1>15, <1>t DEF DeleteRequest, vars, opening, table, webhooks, people, history, KindsOf
<1>16. CASE UNCHANGED vars
  BY <1>16, <1>t DEF vars, opening, table, webhooks, people, history, KindsOf
<1>17. QED BY <1>1, <1>2, <1>3, <1>4, <1>5, <1>6, <1>7, <1>8, <1>9, <1>10, <1>11, <1>12, <1>13, <1>14, <1>15, <1>16 DEF PaymentsNext

LEMMA DeletedWasUnusedStep ==
  ASSUME PaymentsInv, [PaymentsNext]_vars, PaymentsTypeOK'
  PROVE DeletedWasUnused'
<1>t. PaymentsTypeOK /\ DeletedWasUnused
  BY DEF PaymentsInv
<1> USE DEF DeletedWasUnused
<1>1. ASSUME NEW p \in Payments, DrawReference(p) PROVE DeletedWasUnused'
  BY <1>1, <1>t DEF DrawReference, vars, opening, table, webhooks, people, history, Referenced
<1>2. ASSUME NEW p \in Payments, OpenAtProvider(p) PROVE DeletedWasUnused'
  BY <1>2, <1>t DEF OpenAtProvider, vars, opening, table, webhooks, people, history, Referenced
<1>3. ASSUME NEW p \in Payments, OpeningFails(p) PROVE DeletedWasUnused'
  BY <1>3, <1>t DEF OpeningFails, vars, opening, table, webhooks, people, history, Referenced
<1>4. ASSUME NEW p \in Payments, CreateTransaction(p) PROVE DeletedWasUnused'
  BY <1>4, <1>t DEF CreateTransaction, vars, opening, table, webhooks, people, history, Referenced
<1>5. ASSUME NEW p \in Payments, ProviderEvent(p) PROVE DeletedWasUnused'
  BY <1>5, <1>t DEF ProviderEvent, vars, opening, table, webhooks, people, history, Referenced
<1>6. ASSUME NEW p \in Payments, Return(p) PROVE DeletedWasUnused'
  BY <1>6, <1>t DEF Return, vars, opening, table, webhooks, people, history, Referenced
<1>7. ASSUME NEW p \in Payments, Complete(p) PROVE DeletedWasUnused'
  BY <1>7, <1>t DEF Complete, vars, opening, table, webhooks, people, history, Referenced
<1>8. ASSUME NEW p \in Payments, ConfirmPayment(p) PROVE DeletedWasUnused'
  BY <1>8, <1>t DEF ConfirmPayment, vars, opening, table, webhooks, people, history, Referenced
<1>9. ASSUME NEW p \in Payments, OpenTransaction(p) PROVE DeletedWasUnused'
  BY <1>9, <1>t DEF OpenTransaction, vars, opening, table, webhooks, people, history, Referenced
<1>10. ASSUME NEW p \in Payments, ConfirmTransaction(p) PROVE DeletedWasUnused'
  BY <1>10, <1>t DEF ConfirmTransaction, vars, opening, table, webhooks, people, history, Referenced
<1>11. ASSUME NEW p \in Payments, NEW k \in EventNumbers, LookUp(p, k) PROVE DeletedWasUnused'
  BY <1>11, <1>t DEF LookUp, vars, opening, table, webhooks, people, history, Referenced
<1>12. ASSUME NEW p \in Payments, NEW k \in EventNumbers, UpdateStatus(p, k) PROVE DeletedWasUnused'
  BY <1>12, <1>t DEF UpdateStatus, vars, opening, table, webhooks, people, history, Referenced
<1>13. ASSUME NEW p \in Payments, NEW k \in EventNumbers, WebhookFails(p, k) PROVE DeletedWasUnused'
  BY <1>13, <1>t DEF WebhookFails, vars, opening, table, webhooks, people, history, Referenced
<1>14. ASSUME CountTransactions PROVE DeletedWasUnused'
  BY <1>14, <1>t DEF CountTransactions, vars, opening, table, webhooks, people, history, Referenced
<1>15. ASSUME DeleteRequest PROVE DeletedWasUnused'
  BY <1>15, <1>t DEF DeleteRequest, vars, opening, table, webhooks, people, history, Referenced
<1>16. CASE UNCHANGED vars
  BY <1>16, <1>t DEF vars, opening, table, webhooks, people, history, Referenced
<1>17. QED BY <1>1, <1>2, <1>3, <1>4, <1>5, <1>6, <1>7, <1>8, <1>9, <1>10, <1>11, <1>12, <1>13, <1>14, <1>15, <1>16 DEF PaymentsNext

LEMMA HeldIsFoundStep ==
  ASSUME PaymentsInv, [PaymentsNext]_vars, PaymentsTypeOK', GoesOn
  PROVE HeldIsFound'
<1>t. PaymentsTypeOK /\ HeldIsFound /\ Pages
  BY DEF PaymentsInv
<1> DEFINE Holds(p, k, q) ==
             Notified(p)' /\ k \in DOMAIN events'[p] /\ q \in rows' /\ ref'[q] = ref'[p]
<1>e. \A p \in Payments, k \in EventNumbers : k \in DOMAIN events[p] => page[p] # "new"
  BY <1>t DEF Pages
<1>f. \A p \in Payments, k \in EventNumbers, q \in rows :
        Notified(p) /\ k \in DOMAIN events[p] /\ ref[q] = ref[p] => Holds(p, k, q)
  <2> SUFFICES ASSUME NEW p \in Payments, NEW k \in EventNumbers, NEW q \in rows,
                      Notified(p), k \in DOMAIN events[p], ref[q] = ref[p]
               PROVE  Holds(p, k, q)
    OBVIOUS
  <2>1. Notified(p)'
    BY DEF Notified, GoesOn
  <2>2. k \in DOMAIN events'[p] /\ q \in rows' /\ ref'[p] = ref[p]
    BY <1>e DEF GoesOn
  <2>3. ref'[q] = ref[q]
    BY PaidGoesOn
  <2>4. QED
    BY <2>1, <2>2, <2>3
<1>g. ASSUME notice' = notice, found' = found PROVE HeldIsFound'
  BY <1>t, <1>f, <1>g DEF HeldIsFound
<1>h. ASSUME NEW p \in Payments, NEW k \in EventNumbers, NEW s \in {"due", "heard"},
             notice' = [notice EXCEPT ![p][k] = s], found' = [found EXCEPT ![p][k] = None]
      PROVE  HeldIsFound'
  <2>1. \A q \in Payments, l \in EventNumbers : notice'[q][l] = "held" =>
          notice[q][l] = "held" /\ found'[q][l] = found[q][l]
    BY <1>t, <1>h DEF PaymentsTypeOK
  <2>2. QED
    BY <1>t, <1>f, <2>1 DEF HeldIsFound
<1>i. ASSUME NEW p \in Payments, NEW k \in EventNumbers, LookUp(p, k)
      PROVE  HeldIsFound'
  <2>1. PICK r \in SameReference(p) : found' = [found EXCEPT ![p][k] = r]
    BY <1>i DEF LookUp
  <2>2. r \in rows /\ Notified(p) /\ k \in DOMAIN events[p] /\ ref[r] = ref[p]
    BY <1>i, <2>1 DEF LookUp, SameReference
  <2>3. \A q \in Payments, l \in EventNumbers : notice'[q][l] = "held" =>
          \/ q = p /\ l = k /\ found'[q][l] = r
          \/ notice[q][l] = "held" /\ found'[q][l] = found[q][l]
    BY <1>t, <1>i, <2>1 DEF LookUp, PaymentsTypeOK
  <2>4. Holds(p, k, r)
    BY <1>f, <2>2
  <2>5. \A q \in Payments, l \in EventNumbers : notice[q][l] = "held" => Holds(q, l, found[q][l])
    BY <1>t, <1>f DEF HeldIsFound
  <2>6. QED
    BY <2>3, <2>4, <2>5 DEF HeldIsFound
<1> HIDE DEF Holds
<1>1. ASSUME NEW p \in Payments, DrawReference(p) PROVE HeldIsFound'
  BY <1>1, <1>g DEF DrawReference, vars, opening, table, webhooks, people, history
<1>2. ASSUME NEW p \in Payments, OpenAtProvider(p) PROVE HeldIsFound'
  BY <1>2, <1>g DEF OpenAtProvider, vars, opening, table, webhooks, people, history
<1>3. ASSUME NEW p \in Payments, OpeningFails(p) PROVE HeldIsFound'
  BY <1>3, <1>g DEF OpeningFails, vars, opening, table, webhooks, people, history
<1>4. ASSUME NEW p \in Payments, CreateTransaction(p) PROVE HeldIsFound'
  BY <1>4, <1>g DEF CreateTransaction, vars, opening, table, webhooks, people, history
<1>5. ASSUME NEW p \in Payments, ProviderEvent(p) PROVE HeldIsFound'
  BY <1>5, <1>g DEF ProviderEvent, vars, opening, table, webhooks, people, history
<1>6. ASSUME NEW p \in Payments, Return(p) PROVE HeldIsFound'
  BY <1>6, <1>g DEF Return, vars, opening, table, webhooks, people, history
<1>7. ASSUME NEW p \in Payments, Complete(p) PROVE HeldIsFound'
  BY <1>7, <1>g DEF Complete, vars, opening, table, webhooks, people, history
<1>8. ASSUME NEW p \in Payments, ConfirmPayment(p) PROVE HeldIsFound'
  BY <1>8, <1>g DEF ConfirmPayment, vars, opening, table, webhooks, people, history
<1>9. ASSUME NEW p \in Payments, OpenTransaction(p) PROVE HeldIsFound'
  BY <1>9, <1>g DEF OpenTransaction, vars, opening, table, webhooks, people, history
<1>10. ASSUME NEW p \in Payments, ConfirmTransaction(p) PROVE HeldIsFound'
  BY <1>10, <1>g DEF ConfirmTransaction, vars, opening, table, webhooks, people, history
<1>11. ASSUME NEW p \in Payments, NEW k \in EventNumbers, LookUp(p, k) PROVE HeldIsFound'
  BY <1>11, <1>i
<1>12. ASSUME NEW p \in Payments, NEW k \in EventNumbers, UpdateStatus(p, k) PROVE HeldIsFound'
  BY <1>12, <1>h DEF UpdateStatus
<1>13. ASSUME NEW p \in Payments, NEW k \in EventNumbers, WebhookFails(p, k) PROVE HeldIsFound'
  BY <1>13, <1>h DEF WebhookFails
<1>14. ASSUME CountTransactions PROVE HeldIsFound'
  BY <1>14, <1>g DEF CountTransactions, vars, opening, table, webhooks, people, history
<1>15. ASSUME DeleteRequest PROVE HeldIsFound'
  BY <1>15, <1>g DEF DeleteRequest, vars, opening, table, webhooks, people, history
<1>16. CASE UNCHANGED vars
  BY <1>16, <1>g DEF vars, opening, table, webhooks, people, history
<1>17. QED BY <1>1, <1>2, <1>3, <1>4, <1>5, <1>6, <1>7, <1>8, <1>9, <1>10, <1>11, <1>12, <1>13, <1>14, <1>15, <1>16 DEF PaymentsNext

LEMMA PeopleKnowStep ==
  ASSUME PaymentsInv, [PaymentsNext]_vars, PaymentsTypeOK', GoesOn
  PROVE PeopleKnow'
<1>t. PaymentsTypeOK /\ PeopleKnow /\ Pages /\ EventsFit
  BY DEF PaymentsInv
<1> DEFINE Tells(p, s) ==
             s # None =>
               /\ method'[p] = "openbanking" /\ p \in rows'
               /\ s = "succeeded" => Paid(p)' \/ p \in guessed'
               /\ s # "succeeded" => p \in erred' \/ HasFailed(p)'
           Checked(p) ==
             /\ p \in rows' /\ method'[p] = "banktransfer"
             /\ \E q \in Payments : ref'[q] = ref'[p] /\ Paid(q)'
<1>f. \A p \in Payments : HasFailed(p) => HasFailed(p)'
  BY DEF HasFailed, GoesOn
<1>a. \A p \in Payments : Tells(p, seen[p])
  BY <1>t, <1>f, PaidGoesOn DEF PeopleKnow, GoesOn
<1>b. \A p \in rows, q \in Payments :
        method[p] = "banktransfer" /\ ref[q] = ref[p] /\ Paid(q) => Checked(p)
  <2> SUFFICES ASSUME NEW p \in rows, NEW q \in Payments,
                      method[p] = "banktransfer", ref[q] = ref[p], Paid(q)
               PROVE  Checked(p)
    OBVIOUS
  <2>1. Paid(q)' /\ ref'[q] = ref[q] /\ ref'[p] = ref[p]
    BY PaidGoesOn DEF GoesOn
  <2>2. p \in rows' /\ method'[p] = "banktransfer"
    BY DEF GoesOn
  <2>3. QED
    BY <2>1, <2>2
<1>c. \A p \in clerk : Checked(p)
  BY <1>t, <1>b DEF PeopleKnow, PaymentsTypeOK
<1> HIDE DEF Checked
<1>d. ASSUME \A p \in Payments : Tells(p, seen'[p]), \A p \in clerk' : Checked(p)
      PROVE  PeopleKnow'
  BY <1>d DEF PeopleKnow, Checked
<1> HIDE DEF Tells
<1>g. ASSUME seen' = seen, clerk' \subseteq clerk PROVE PeopleKnow'
  BY <1>a, <1>c, <1>d, <1>g
<1>1. ASSUME NEW p \in Payments, DrawReference(p) PROVE PeopleKnow'
  BY <1>1, <1>g DEF DrawReference, vars, opening, table, webhooks, people, history
<1>2. ASSUME NEW p \in Payments, OpenAtProvider(p) PROVE PeopleKnow'
  BY <1>2, <1>g DEF OpenAtProvider, vars, opening, table, webhooks, people, history
<1>3. ASSUME NEW p \in Payments, OpeningFails(p) PROVE PeopleKnow'
  BY <1>3, <1>g DEF OpeningFails, vars, opening, table, webhooks, people, history
<1>4. ASSUME NEW p \in Payments, CreateTransaction(p) PROVE PeopleKnow'
  BY <1>4, <1>g DEF CreateTransaction, vars, opening, table, webhooks, people, history
<1>5. ASSUME NEW p \in Payments, ProviderEvent(p) PROVE PeopleKnow'
  BY <1>5, <1>g DEF ProviderEvent, vars, opening, table, webhooks, people, history
<1>6. ASSUME NEW p \in Payments, Return(p) PROVE PeopleKnow'
  <2>1. clerk' = clerk /\ p \in rows /\ method[p] = "openbanking" /\ events' = events
    BY <1>6, <1>t DEF Return, Pages, vars, opening, table, webhooks, people, history
  <2>2. PICK s \in Statuses :
          /\ seen' = [seen EXCEPT ![p] = s]
          /\ s = "succeeded" => Paid(p) \/ p \in guessed'
          /\ s # "succeeded" => p \in erred' \/ HasFailed(p)
    <3>1. CASE /\ seen' = [seen EXCEPT ![p] = InternalStatus(p)]
               /\ guessed' = IF InternalStatus(p) = "succeeded" /\ ~ Paid(p) THEN guessed \union {p} ELSE guessed
      <4>1. InternalStatus(p) # "succeeded" => HasFailed(p)
        BY <1>t, <2>1, NoSuccessNoMoney
      <4>2. QED
        BY <1>t, <2>1, <3>1, <4>1, InternalStatusFits
    <3>2. CASE seen' = [seen EXCEPT ![p] = "failed"] /\ erred' = erred \union {p}
      BY <3>2 DEF Statuses
    <3>3. QED
      BY <1>6, <3>1, <3>2 DEF Return
  <2>3. Tells(p, s)
    <3>1. Paid(p) => Paid(p)'
      BY PaidGoesOn
    <3>2. method'[p] = "openbanking" /\ p \in rows'
      BY <2>1 DEF GoesOn
    <3>3. QED
      BY <1>f, <2>2, <3>1, <3>2 DEF Tells
  <2>4. \A q \in Payments : seen'[q] = IF q = p THEN s ELSE seen[q]
    BY <1>t, <2>2 DEF PaymentsTypeOK
  <2>5. QED
    BY <1>a, <1>c, <1>d, <2>1, <2>3, <2>4
<1>7. ASSUME NEW p \in Payments, Complete(p) PROVE PeopleKnow'
  <2>1. \A q \in Payments : seen'[q] = IF q = p THEN None ELSE seen[q]
    BY <1>7, <1>t DEF Complete, PaymentsTypeOK
  <2>2. \A q \in Payments : Tells(q, seen'[q])
    BY <1>a, <2>1 DEF Tells
  <2>3. QED
    BY <1>7, <1>c, <1>d, <2>2 DEF Complete
<1>8. ASSUME NEW p \in Payments, ConfirmPayment(p) PROVE PeopleKnow'
  BY <1>8, <1>g DEF ConfirmPayment, vars, opening, table, webhooks, people, history
<1>9. ASSUME NEW p \in Payments, OpenTransaction(p) PROVE PeopleKnow'
  <2>1. Checked(p)
    BY <1>9, <1>b DEF OpenTransaction
  <2>2. QED
    BY <1>9, <1>a, <1>c, <1>d, <2>1 DEF OpenTransaction
<1>10. ASSUME NEW p \in Payments, ConfirmTransaction(p) PROVE PeopleKnow'
  BY <1>10, <1>g DEF ConfirmTransaction, vars, opening, table, webhooks, people, history
<1>11. ASSUME NEW p \in Payments, NEW k \in EventNumbers, LookUp(p, k) PROVE PeopleKnow'
  BY <1>11, <1>g DEF LookUp, vars, opening, table, webhooks, people, history
<1>12. ASSUME NEW p \in Payments, NEW k \in EventNumbers, UpdateStatus(p, k) PROVE PeopleKnow'
  BY <1>12, <1>g DEF UpdateStatus, vars, opening, table, webhooks, people, history
<1>13. ASSUME NEW p \in Payments, NEW k \in EventNumbers, WebhookFails(p, k) PROVE PeopleKnow'
  BY <1>13, <1>g DEF WebhookFails, vars, opening, table, webhooks, people, history
<1>14. ASSUME CountTransactions PROVE PeopleKnow'
  BY <1>14, <1>g DEF CountTransactions, vars, opening, table, webhooks, people, history
<1>15. ASSUME DeleteRequest PROVE PeopleKnow'
  BY <1>15, <1>g DEF DeleteRequest, vars, opening, table, webhooks, people, history
<1>16. CASE UNCHANGED vars
  BY <1>16, <1>g DEF vars, opening, table, webhooks, people, history
<1>17. QED BY <1>1, <1>2, <1>3, <1>4, <1>5, <1>6, <1>7, <1>8, <1>9, <1>10, <1>11, <1>12, <1>13, <1>14, <1>15, <1>16 DEF PaymentsNext

\* Only drawing, or opening at a provider, gives a page a reference.
LEMMA SharingIsNoticedStep ==
  ASSUME PaymentsInv, [PaymentsNext]_vars, PaymentsTypeOK', GoesOn
  PROVE SharingIsNoticed'
<1>t. PaymentsTypeOK /\ SharingIsNoticed /\ Pages /\ References
  BY DEF PaymentsInv
<1>g. ASSUME ref' = ref, \A p \in Payments : DrawnOrStored(p)' => DrawnOrStored(p)
      PROVE  SharingIsNoticed'
  BY <1>t, <1>g DEF SharingIsNoticed, Shares, GoesOn
<1>h. ASSUME NEW p \in Payments, NEW r, r # None, ref' = [ref EXCEPT ![p] = r],
             \A q \in Payments \ {p} : DrawnOrStored(q)' => DrawnOrStored(q),
             \A q \in Payments \ {p} : DrawnOrStored(q) /\ ref[q] = r => r \in overlaps'
      PROVE  SharingIsNoticed'
  <2>1. \A q \in Payments : ref'[q] = IF q = p THEN r ELSE ref[q]
    BY <1>t, <1>h DEF PaymentsTypeOK
  <2>2. \A q \in Payments \ {p} : DrawnOrStored(q)' /\ ref'[q] = r => r \in overlaps'
    BY <1>h, <2>1
  <2>3. \A q, s \in Payments \ {p} :
          DrawnOrStored(q)' /\ DrawnOrStored(s)' /\ q # s /\ ref'[q] = ref'[s] => ref'[q] \in overlaps'
    BY <1>t, <1>h, <2>1 DEF SharingIsNoticed, Shares, GoesOn
  <2>4. QED
    BY <2>1, <2>2, <2>3 DEF SharingIsNoticed, Shares
<1>1. ASSUME NEW p \in Payments, DrawReference(p) PROVE SharingIsNoticed'
  <2>1. PICK r \in Refs \ Taken :
          /\ ref' = [ref EXCEPT ![p] = r]
          /\ overlaps' = IF \E q \in Payments : page[q] = "drawn" /\ ref[q] = r
                            THEN overlaps \union {r} ELSE overlaps
    BY <1>1 DEF DrawReference
  <2>2. \A q \in rows : ref[q] # r
    BY <2>1 DEF Taken
  <2>3. \A q \in Payments \ {p} : DrawnOrStored(q) /\ ref[q] = r => r \in overlaps'
    BY <2>1, <2>2 DEF DrawnOrStored
  <2>4. \A q \in Payments \ {p} : DrawnOrStored(q)' => DrawnOrStored(q)
    BY <1>1, <1>t DEF DrawReference, DrawnOrStored, PaymentsTypeOK, vars, opening, table, webhooks, people, history
  <2>5. QED
    BY <1>h, <2>1, <2>3, <2>4
<1>2. ASSUME NEW p \in Payments, OpenAtProvider(p) PROVE SharingIsNoticed'
  <2>1. \A q \in Payments \ {p} : ref[q] # p
    BY <1>t DEF References
  <2>2. \A q \in Payments \ {p} : DrawnOrStored(q)' => DrawnOrStored(q)
    BY <1>2, <1>t DEF OpenAtProvider, DrawnOrStored, PaymentsTypeOK, vars, opening, table, webhooks, people, history
  <2>3. QED
    BY <1>2, <1>h, <2>1, <2>2 DEF OpenAtProvider
<1>3. ASSUME NEW p \in Payments, OpeningFails(p) PROVE SharingIsNoticed'
  BY <1>3, <1>t, <1>g DEF OpeningFails, vars, opening, table, webhooks, people, history, DrawnOrStored, PaymentsTypeOK
<1>4. ASSUME NEW p \in Payments, CreateTransaction(p) PROVE SharingIsNoticed'
  BY <1>4, <1>t, <1>g DEF CreateTransaction, vars, opening, table, webhooks, people, history, DrawnOrStored, PaymentsTypeOK
<1>5. ASSUME NEW p \in Payments, ProviderEvent(p) PROVE SharingIsNoticed'
  BY <1>5, <1>t, <1>g DEF ProviderEvent, vars, opening, table, webhooks, people, history, DrawnOrStored, PaymentsTypeOK
<1>6. ASSUME NEW p \in Payments, Return(p) PROVE SharingIsNoticed'
  BY <1>6, <1>t, <1>g DEF Return, vars, opening, table, webhooks, people, history, DrawnOrStored, PaymentsTypeOK
<1>7. ASSUME NEW p \in Payments, Complete(p) PROVE SharingIsNoticed'
  BY <1>7, <1>t, <1>g DEF Complete, vars, opening, table, webhooks, people, history, DrawnOrStored, PaymentsTypeOK
<1>8. ASSUME NEW p \in Payments, ConfirmPayment(p) PROVE SharingIsNoticed'
  BY <1>8, <1>t, <1>g DEF ConfirmPayment, vars, opening, table, webhooks, people, history, DrawnOrStored, PaymentsTypeOK
<1>9. ASSUME NEW p \in Payments, OpenTransaction(p) PROVE SharingIsNoticed'
  BY <1>9, <1>t, <1>g DEF OpenTransaction, vars, opening, table, webhooks, people, history, DrawnOrStored, PaymentsTypeOK
<1>10. ASSUME NEW p \in Payments, ConfirmTransaction(p) PROVE SharingIsNoticed'
  BY <1>10, <1>t, <1>g DEF ConfirmTransaction, vars, opening, table, webhooks, people, history, DrawnOrStored, PaymentsTypeOK
<1>11. ASSUME NEW p \in Payments, NEW k \in EventNumbers, LookUp(p, k) PROVE SharingIsNoticed'
  BY <1>11, <1>t, <1>g DEF LookUp, vars, opening, table, webhooks, people, history, DrawnOrStored, PaymentsTypeOK
<1>12. ASSUME NEW p \in Payments, NEW k \in EventNumbers, UpdateStatus(p, k) PROVE SharingIsNoticed'
  BY <1>12, <1>t, <1>g DEF UpdateStatus, vars, opening, table, webhooks, people, history, DrawnOrStored, PaymentsTypeOK
<1>13. ASSUME NEW p \in Payments, NEW k \in EventNumbers, WebhookFails(p, k) PROVE SharingIsNoticed'
  BY <1>13, <1>t, <1>g DEF WebhookFails, vars, opening, table, webhooks, people, history, DrawnOrStored, PaymentsTypeOK
<1>14. ASSUME CountTransactions PROVE SharingIsNoticed'
  BY <1>14, <1>t, <1>g DEF CountTransactions, vars, opening, table, webhooks, people, history, DrawnOrStored, PaymentsTypeOK
<1>15. ASSUME DeleteRequest PROVE SharingIsNoticed'
  BY <1>15, <1>t, <1>g DEF DeleteRequest, vars, opening, table, webhooks, people, history, DrawnOrStored, PaymentsTypeOK
<1>16. CASE UNCHANGED vars
  BY <1>16, <1>g DEF vars, opening, table, webhooks, people, history, DrawnOrStored
<1>17. QED BY <1>1, <1>2, <1>3, <1>4, <1>5, <1>6, <1>7, <1>8, <1>9, <1>10, <1>11, <1>12, <1>13, <1>14, <1>15, <1>16 DEF PaymentsNext

\* Whoever writes "succeeded" knows of the money, or was told.
LEMMA SucceededWasPaidStep ==
  ASSUME PaymentsInv, [PaymentsNext]_vars, PaymentsTypeOK', GoesOn
  PROVE SucceededWasPaid'
<1>t. PaymentsTypeOK /\ SucceededWasPaid /\ Pages /\ References /\ EventsFit
      /\ HeldIsFound /\ PeopleKnow /\ StoredHaveReferences
  BY DEF PaymentsInv
<1> DEFINE Known(p) == \/ Paid(p)
                       \/ p \in guessed
                       \/ \E q \in Payments : Shares(p, q) /\ Paid(q)
<1>a. \A p \in rows : Known(p) => Known(p)'
  BY PaidGoesOn DEF GoesOn, Shares
<1>b. \A p \in rows : status[p] = "succeeded" => Known(p)
  BY <1>t DEF SucceededWasPaid
<1> HIDE DEF Known
<1>c. ASSUME \A p \in rows' : status'[p] = "succeeded" => p \in rows /\ Known(p)
      PROVE  SucceededWasPaid'
  BY <1>a, <1>c DEF SucceededWasPaid, Known
<1>g. ASSUME rows' = rows, \A p \in rows : status'[p] = "succeeded" => status[p] = "succeeded"
      PROVE  SucceededWasPaid'
  BY <1>b, <1>c, <1>g
<1>1. ASSUME NEW p \in Payments, DrawReference(p) PROVE SucceededWasPaid'
  BY <1>1, <1>g DEF DrawReference, vars, opening, table, webhooks, people, history
<1>2. ASSUME NEW p \in Payments, OpenAtProvider(p) PROVE SucceededWasPaid'
  BY <1>2, <1>g DEF OpenAtProvider, vars, opening, table, webhooks, people, history
<1>3. ASSUME NEW p \in Payments, OpeningFails(p) PROVE SucceededWasPaid'
  BY <1>3, <1>g DEF OpeningFails, vars, opening, table, webhooks, people, history
<1>4. ASSUME NEW p \in Payments, CreateTransaction(p) PROVE SucceededWasPaid'
  <2>1. status' = status /\ rows' \subseteq rows \union {p} /\ p \notin rows
    BY <1>4, <1>t DEF CreateTransaction, Pages
  <2>2. status[p] = "initiated"
    BY <1>t, <2>1 DEF Pages
  <2>3. QED
    BY <1>b, <1>c, <2>1, <2>2
<1>5. ASSUME NEW p \in Payments, ProviderEvent(p) PROVE SucceededWasPaid'
  BY <1>5, <1>g DEF ProviderEvent, vars, opening, table, webhooks, people, history
<1>6. ASSUME NEW p \in Payments, Return(p) PROVE SucceededWasPaid'
  BY <1>6, <1>g DEF Return, vars, opening, table, webhooks, people, history
<1>7. ASSUME NEW p \in Payments, Complete(p) PROVE SucceededWasPaid'
  <2>1. \A q \in rows : status'[q] = IF ref[q] = ref[p] THEN seen[p] ELSE status[q]
    BY <1>7, <1>t DEF Complete, SameReference, PaymentsTypeOK
  <2>2. rows' = rows /\ p \in rows /\ method[p] = "openbanking"
    BY <1>7, <1>t DEF Complete, PeopleKnow
  <2>3. ref[p] \in {p, None}
    BY <1>t, <2>2 DEF References
  <2>4. seen[p] = "succeeded" => Paid(p) \/ p \in guessed
    BY <1>7, <1>t DEF Complete, PeopleKnow
  <2>5. \A q \in rows : ref[q] = ref[p] => q = p
    BY <1>t, <2>2, <2>3 DEF References, StoredHaveReferences, PaymentsTypeOK
  <2>6. QED
    BY <1>b, <1>c, <2>1, <2>2, <2>4, <2>5 DEF Known
<1>8. ASSUME NEW p \in Payments, ConfirmPayment(p) PROVE SucceededWasPaid'
  <2>1. rows' = rows /\ \A q \in rows : status'[q] = "succeeded" => status[q] = "succeeded"
    BY <1>8, <1>t DEF ConfirmPayment, PaymentsTypeOK, vars, opening, table, webhooks, people, history
  <2>2. QED
    BY <1>g, <2>1
<1>9. ASSUME NEW p \in Payments, OpenTransaction(p) PROVE SucceededWasPaid'
  BY <1>9, <1>g DEF OpenTransaction, vars, opening, table, webhooks, people, history
<1>10. ASSUME NEW p \in Payments, ConfirmTransaction(p) PROVE SucceededWasPaid'
  <2>1. rows' = rows /\ \A q \in rows : q # p => status'[q] = status[q]
    BY <1>10, <1>t DEF ConfirmTransaction, PaymentsTypeOK, vars, opening, table, webhooks, people, history
  <2>2. p \in rows /\ Known(p)
    BY <1>10, <1>t DEF ConfirmTransaction, PeopleKnow, Known, Shares
  <2>3. QED
    BY <1>b, <1>c, <2>1, <2>2
<1>11. ASSUME NEW p \in Payments, NEW k \in EventNumbers, LookUp(p, k) PROVE SucceededWasPaid'
  BY <1>11, <1>g DEF LookUp, vars, opening, table, webhooks, people, history
<1>12. ASSUME NEW p \in Payments, NEW k \in EventNumbers, UpdateStatus(p, k) PROVE SucceededWasPaid'
  <2> DEFINE f == found[p][k]
  <2>1. Notified(p) /\ k \in DOMAIN events[p] /\ f \in rows /\ ref[f] = ref[p]
    BY <1>12, <1>t DEF UpdateStatus, HeldIsFound
  <2>2. rows' = rows /\ (status' = status \/ status' = [status EXCEPT ![f] = StatusFor(p, k)])
    BY <1>12 DEF UpdateStatus
  <2>3. StatusFor(p, k) = "succeeded" => Paid(p)
    BY <1>t, <2>1, StatusForFits DEF Paid
  <2>4. Paid(p) => Known(f)
    BY <2>1 DEF Known, Shares
  <2>5. \A q \in rows : status'[q] = "succeeded" => Known(q)
    <3>1. CASE status' = status
      BY <1>b, <3>1
    <3>2. CASE status' = [status EXCEPT ![f] = StatusFor(p, k)]
      <4>1. \A q \in rows : status'[q] = IF q = f THEN StatusFor(p, k) ELSE status[q]
        BY <1>t, <2>1, <3>2 DEF PaymentsTypeOK
      <4>2. QED
        BY <1>b, <2>3, <2>4, <4>1
    <3>3. QED
      BY <2>2, <3>1, <3>2
  <2>6. QED
    BY <1>c, <2>2, <2>5
<1>13. ASSUME NEW p \in Payments, NEW k \in EventNumbers, WebhookFails(p, k) PROVE SucceededWasPaid'
  BY <1>13, <1>g DEF WebhookFails, vars, opening, table, webhooks, people, history
<1>14. ASSUME CountTransactions PROVE SucceededWasPaid'
  BY <1>14, <1>g DEF CountTransactions, vars, opening, table, webhooks, people, history
<1>15. ASSUME DeleteRequest PROVE SucceededWasPaid'
  BY <1>15, <1>g DEF DeleteRequest, vars, opening, table, webhooks, people, history
<1>16. CASE UNCHANGED vars
  BY <1>16, <1>g DEF vars, opening, table, webhooks, people, history
<1>17. QED BY <1>1, <1>2, <1>3, <1>4, <1>5, <1>6, <1>7, <1>8, <1>9, <1>10, <1>11, <1>12, <1>13, <1>14, <1>15, <1>16 DEF PaymentsNext

LEMMA PaymentsInvStep == PaymentsInv /\ [PaymentsNext]_vars => PaymentsInv'
<1> SUFFICES ASSUME PaymentsInv, [PaymentsNext]_vars PROVE PaymentsInv'
  OBVIOUS
<1>1. PaymentsTypeOK' /\ GoesOn
  BY PaymentsTypeStep, ItGoesOn
<1>2. Pages' /\ References' /\ StoredHaveReferences' /\ EventsFit' /\ DeletedWasUnused'
  BY <1>1, PagesStep, ReferencesStep, StoredHaveReferencesStep, EventsFitStep, DeletedWasUnusedStep
<1>3. HeldIsFound' /\ PeopleKnow'
  BY <1>1, HeldIsFoundStep, PeopleKnowStep
<1>4. SharingIsNoticed' /\ SucceededWasPaid'
  BY <1>1, SharingIsNoticedStep, SucceededWasPaidStep
<1>5. QED
  BY <1>1, <1>2, <1>3, <1>4 DEF PaymentsInv

LEMMA PaymentsInvHolds == PaymentsSpec => []PaymentsInv
  BY PaymentsInvInit, PaymentsInvStep, PTL DEF PaymentsSpec

\* Every variable keeps its type.
THEOREM PaymentsTypeCorrect == PaymentsSpec => []PaymentsTypeOK
<1>1. PaymentsInv => PaymentsTypeOK
  BY DEF PaymentsInv
<1>2. QED
  BY <1>1, PaymentsInvHolds, PTL

\* Whoever records a success, webhook, returning citizen or public servant, and
\* in whatever order they come, the money was paid, for this payment or for one
\* of the same reference, or TrueLayer had not decided (getInternalStatus).
THEOREM SucceededWasPaidCorrect == PaymentsSpec => []SucceededWasPaid
<1>1. PaymentsInv => SucceededWasPaid
  BY DEF PaymentsInv
<1>2. QED
  BY <1>1, PaymentsInvHolds, PTL

\* generatePaymentIntentId gives two stored transactions one reference only if
\* it drew it a second time before the first was stored.
THEOREM SharedReferenceNeedsOverlapCorrect == PaymentsSpec => []SharedReferenceNeedsOverlap
<1>1. PaymentsInv => SharedReferenceNeedsOverlap
  BY DEF PaymentsInv, SharingIsNoticed, DrawnOrStored, SharedReferenceNeedsOverlap, PaymentsTypeOK
<1>2. QED
  BY <1>1, PaymentsInvHolds, PTL

\* A request is deleted only without transactions, whatever was stored after
\* they were counted.
THEOREM DeletedWasUnusedCorrect == PaymentsSpec => []DeletedWasUnused
<1>1. PaymentsInv => DeletedWasUnused
  BY DEF PaymentsInv
<1>2. QED
  BY <1>1, PaymentsInvHolds, PTL

-----------------------------------------------------------------------------
(* The order in which the news of one payment is written.                  *)

\* The money is the last event of a payment, and TrueLayer's only one.
MoneyIsLast ==
  \A p \in Payments :
    /\ \A k \in DOMAIN events[p] : events[p][k] \in MoneyKinds => k = Len(events[p])
    /\ method[p] = "openbanking" => Len(events[p]) <= 1
    /\ newest[p] <= Len(events[p])

\* A success on record is the newest of what a webhook wrote.
AsRecorded(p) ==
  p \in rows /\ status[p] = "succeeded" /\ (\A q \in Payments : ~ Shares(p, q)) /\ Notified(p) =>
    newest[p] \in DOMAIN events[p] /\ events[p][newest[p]] \in MoneyKinds

OrderInv ==
  /\ MoneyIsLast
  /\ \A p \in Payments : AsRecorded(p)

LEMMA OrderInvInit == PaymentsInit => OrderInv
<1> SUFFICES ASSUME PaymentsInit PROVE OrderInv
  OBVIOUS
<1>1. \A p \in Payments : events[p] = <<>> /\ newest[p] = 0 /\ p \notin rows
  BY DEF PaymentsInit
<1>2. QED
  BY <1>1 DEF OrderInv, MoneyIsLast, AsRecorded

LEMMA MoneyIsLastStep ==
  ASSUME PaymentsInv, OrderInv, [PaymentsNext]_vars, PaymentsTypeOK', GoesOn
  PROVE MoneyIsLast'
<1>t. PaymentsTypeOK /\ MoneyIsLast /\ Pages /\ HeldIsFound /\ method' = method
  BY DEF PaymentsInv, OrderInv, GoesOn
<1>l. \A p \in Payments : events[p] \in Seq(Kinds) /\ Len(events[p]) \in Nat
        /\ DOMAIN events[p] = 1 .. Len(events[p]) /\ newest[p] \in Nat
  <2>1. \A p \in Payments : events[p] \in Seq(Kinds) /\ newest[p] \in 0 .. MaxEvents
    BY <1>t DEF PaymentsTypeOK
  <2>2. QED
    BY <2>1
<1>g. ASSUME events' = events, newest' = newest PROVE MoneyIsLast'
  BY <1>t, <1>g DEF MoneyIsLast
<1>1. ASSUME NEW p \in Payments, DrawReference(p) PROVE MoneyIsLast'
  BY <1>1, <1>g DEF DrawReference, vars, opening, table, webhooks, people, history
<1>2. ASSUME NEW p \in Payments, OpenAtProvider(p) PROVE MoneyIsLast'
  <2>1. \A q \in Payments : events'[q] = events[q] \/ (events'[q] = <<"created">> /\ q = p /\ method[p] = "stripe")
    BY <1>2, <1>t DEF OpenAtProvider, PaymentsTypeOK
  <2>2. newest' = newest /\ newest[p] <= 1
    BY <1>2, <1>t, <1>l DEF OpenAtProvider, MoneyIsLast, Pages, vars, opening, table, webhooks, people, history
  <2>3. Len(<<"created">>) = 1 /\ DOMAIN <<"created">> = {1}
    OBVIOUS
  <2>4. QED
    BY <1>t, <1>l, <2>1, <2>2, <2>3 DEF MoneyIsLast
<1>3. ASSUME NEW p \in Payments, OpeningFails(p) PROVE MoneyIsLast'
  BY <1>3, <1>g DEF OpeningFails, vars, opening, table, webhooks, people, history
<1>4. ASSUME NEW p \in Payments, CreateTransaction(p) PROVE MoneyIsLast'
  BY <1>4, <1>g DEF CreateTransaction, vars, opening, table, webhooks, people, history
<1>5. ASSUME NEW p \in Payments, ProviderEvent(p) PROVE MoneyIsLast'
  <2>1. PICK e \in Outcomes(p) : events' = [events EXCEPT ![p] = Append(@, e)]
    BY <1>5 DEF ProviderEvent
  <2>2. method[p] \in Methods /\ newest' = newest /\ ~ Settled(p)
    BY <1>5, <1>t DEF ProviderEvent, PaymentsTypeOK, vars, opening, table, webhooks, people, history
  <2>3. e \in Kinds
    BY <2>1, <2>2 DEF Outcomes, Kinds, Methods, StripeStatus, RealexStatus, TrueLayerStatus
  <2>4. /\ Len(Append(events[p], e)) = Len(events[p]) + 1
        /\ DOMAIN Append(events[p], e) = 1 .. Len(events[p]) + 1
        /\ \A k \in 1 .. Len(events[p]) : Append(events[p], e)[k] = events[p][k]
    BY <1>l, <2>3
  <2>5. \A k \in DOMAIN events[p] : events[p][k] \notin MoneyKinds
    BY <2>2 DEF Settled
  <2>6. method[p] = "openbanking" => Len(events[p]) = 0
    <3> SUFFICES ASSUME method[p] = "openbanking", Len(events[p]) # 0 PROVE FALSE
      OBVIOUS
    <3>1. 1 \in DOMAIN events[p]
      BY <1>l
    <3>2. QED
      BY <2>2, <3>1 DEF Settled
  <2>7. \A q \in Payments : events'[q] = IF q = p THEN Append(events[p], e) ELSE events[q]
    BY <1>t, <2>1 DEF PaymentsTypeOK
  <2>a. \A k \in DOMAIN Append(events[p], e) : Append(events[p], e)[k] \in MoneyKinds => k = Len(events[p]) + 1
    BY <1>l, <2>4, <2>5
  <2>8. \A q \in Payments \ {p} :
          /\ \A k \in DOMAIN events'[q] : events'[q][k] \in MoneyKinds => k = Len(events'[q])
          /\ method'[q] = "openbanking" => Len(events'[q]) <= 1
          /\ newest'[q] <= Len(events'[q])
    BY <1>t, <2>2, <2>7 DEF MoneyIsLast
  <2>p. events'[p] = Append(events[p], e) /\ Len(events'[p]) = Len(events[p]) + 1 /\ method'[p] = method[p]
    BY <1>t, <2>4, <2>7
  <2>9. /\ \A k \in DOMAIN events'[p] : events'[p][k] \in MoneyKinds => k = Len(events'[p])
        /\ method'[p] = "openbanking" => Len(events'[p]) <= 1
    BY <1>l, <2>6, <2>a, <2>p
  <2>b. newest'[p] <= Len(events'[p])
    BY <1>t, <1>l, <2>2, <2>p DEF MoneyIsLast
  <2>c. QED
    BY <2>8, <2>9, <2>b DEF MoneyIsLast
<1>6. ASSUME NEW p \in Payments, Return(p) PROVE MoneyIsLast'
  BY <1>6, <1>g DEF Return, vars, opening, table, webhooks, people, history
<1>7. ASSUME NEW p \in Payments, Complete(p) PROVE MoneyIsLast'
  BY <1>7, <1>g DEF Complete, vars, opening, table, webhooks, people, history
<1>8. ASSUME NEW p \in Payments, ConfirmPayment(p) PROVE MoneyIsLast'
  BY <1>8, <1>g DEF ConfirmPayment, vars, opening, table, webhooks, people, history
<1>9. ASSUME NEW p \in Payments, OpenTransaction(p) PROVE MoneyIsLast'
  BY <1>9, <1>g DEF OpenTransaction, vars, opening, table, webhooks, people, history
<1>10. ASSUME NEW p \in Payments, ConfirmTransaction(p) PROVE MoneyIsLast'
  BY <1>10, <1>g DEF ConfirmTransaction, vars, opening, table, webhooks, people, history
<1>11. ASSUME NEW p \in Payments, NEW k \in EventNumbers, LookUp(p, k) PROVE MoneyIsLast'
  BY <1>11, <1>g DEF LookUp, vars, opening, table, webhooks, people, history
<1>12. ASSUME NEW p \in Payments, NEW k \in EventNumbers, UpdateStatus(p, k) PROVE MoneyIsLast'
  <2>1. k \in DOMAIN events[p] /\ events' = events
    BY <1>12, <1>t DEF UpdateStatus, HeldIsFound
  <2>2. newest' = newest \/ newest' = [newest EXCEPT ![p] = k]
    BY <1>12 DEF UpdateStatus
  <2>3. k <= Len(events[p])
    BY <1>l, <2>1
  <2>4. \A q \in Payments : newest'[q] \in {newest[q]} \union IF q = p THEN {k} ELSE {}
    BY <1>t, <2>2 DEF PaymentsTypeOK
  <2>5. QED
    BY <1>t, <2>1, <2>3, <2>4 DEF MoneyIsLast
<1>13. ASSUME NEW p \in Payments, NEW k \in EventNumbers, WebhookFails(p, k) PROVE MoneyIsLast'
  BY <1>13, <1>g DEF WebhookFails, vars, opening, table, webhooks, people, history
<1>14. ASSUME CountTransactions PROVE MoneyIsLast'
  BY <1>14, <1>g DEF CountTransactions, vars, opening, table, webhooks, people, history
<1>15. ASSUME DeleteRequest PROVE MoneyIsLast'
  BY <1>15, <1>g DEF DeleteRequest, vars, opening, table, webhooks, people, history
<1>16. CASE UNCHANGED vars
  BY <1>16, <1>g DEF vars, opening, table, webhooks, people, history
<1>17. QED BY <1>1, <1>2, <1>3, <1>4, <1>5, <1>6, <1>7, <1>8, <1>9, <1>10, <1>11, <1>12, <1>13, <1>14, <1>15, <1>16 DEF PaymentsNext

LEMMA AsRecordedStep ==
  ASSUME PaymentsInv, OrderInv, [PaymentsNext]_vars, PaymentsTypeOK', GoesOn, MoneyIsLast'
  PROVE \A q \in Payments : AsRecorded(q)'
<1>t. PaymentsTypeOK /\ MoneyIsLast /\ Pages /\ References /\ StoredHaveReferences /\ EventsFit
      /\ HeldIsFound /\ PeopleKnow /\ SucceededWasPaid /\ \A p \in Payments : AsRecorded(p)
  BY DEF PaymentsInv, OrderInv
<1>s. \A p \in rows, q \in Payments : Shares(p, q) => Shares(p, q)'
  <2> SUFFICES ASSUME NEW p \in rows, NEW q \in Payments, Shares(p, q) PROVE Shares(p, q)'
    OBVIOUS
  <2>1. p \in Payments /\ ref[p] # None /\ ref[q] = ref[p]
    BY <1>t DEF PaymentsTypeOK, StoredHaveReferences, Shares
  <2>2. page[p] # "new" /\ page[q] # "new"
    BY <1>t, <2>1 DEF Pages
  <2>3. QED
    BY <2>1, <2>2 DEF GoesOn, Shares
<1>k. \A p \in Payments : newest[p] \in DOMAIN events[p] /\ events[p][newest[p]] \in MoneyKinds =>
        newest[p] \in DOMAIN events'[p] /\ events'[p][newest[p]] \in MoneyKinds
  BY DEF GoesOn
\* One row, nothing written that matters to it.
<1>o. ASSUME NEW q \in Payments, q \in rows' => q \in rows,
             status'[q] = "succeeded" => status[q] = "succeeded",
             newest'[q] = newest[q]
      PROVE  AsRecorded(q)'
  <2> SUFFICES ASSUME q \in rows', status'[q] = "succeeded",
                      \A s \in Payments : ~ Shares(q, s)', Notified(q)'
               PROVE  newest'[q] \in DOMAIN events'[q] /\ events'[q][newest'[q]] \in MoneyKinds
    BY DEF AsRecorded
  <2>1. q \in rows /\ status[q] = "succeeded" /\ \A s \in Payments : ~ Shares(q, s)
    BY <1>o, <1>s
  <2>2. Notified(q)
    BY DEF Notified, GoesOn
  <2>3. newest[q] \in DOMAIN events[q] /\ events[q][newest[q]] \in MoneyKinds
    BY <1>t, <2>1, <2>2 DEF AsRecorded
  <2>4. QED
    BY <1>o, <1>k, <2>3
<1>g. ASSUME rows' = rows, status' = status, newest' = newest
      PROVE  \A q \in Payments : AsRecorded(q)'
  BY <1>o, <1>g
<1>1. ASSUME NEW p \in Payments, DrawReference(p) PROVE \A q \in Payments : AsRecorded(q)'
  BY <1>1, <1>g DEF DrawReference, vars, opening, table, webhooks, people, history
<1>2. ASSUME NEW p \in Payments, OpenAtProvider(p) PROVE \A q \in Payments : AsRecorded(q)'
  BY <1>2, <1>g DEF OpenAtProvider, vars, opening, table, webhooks, people, history
<1>3. ASSUME NEW p \in Payments, OpeningFails(p) PROVE \A q \in Payments : AsRecorded(q)'
  BY <1>3, <1>g DEF OpeningFails, vars, opening, table, webhooks, people, history
<1>4. ASSUME NEW p \in Payments, CreateTransaction(p) PROVE \A q \in Payments : AsRecorded(q)'
  <2>1. status' = status /\ rows' \subseteq rows \union {p} /\ p \notin rows /\ newest' = newest /\ seen' = seen
    BY <1>4, <1>t DEF CreateTransaction, Pages, vars, opening, table, webhooks, people, history
  <2>2. status'[p] # "succeeded"
    BY <1>t, <2>1 DEF Pages
  <2>3. AsRecorded(p)'
    BY <2>2 DEF AsRecorded
  <2>4. QED
    BY <1>o, <2>1, <2>3
<1>5. ASSUME NEW p \in Payments, ProviderEvent(p) PROVE \A q \in Payments : AsRecorded(q)'
  BY <1>5, <1>g DEF ProviderEvent, vars, opening, table, webhooks, people, history
<1>6. ASSUME NEW p \in Payments, Return(p) PROVE \A q \in Payments : AsRecorded(q)'
  BY <1>6, <1>g DEF Return, vars, opening, table, webhooks, people, history
<1>7. ASSUME NEW p \in Payments, Complete(p) PROVE \A q \in Payments : AsRecorded(q)'
  <2>1. \A q \in Payments : status'[q] = IF q \in rows /\ ref[q] = ref[p] THEN seen[p] ELSE status[q]
    BY <1>7, <1>t DEF Complete, SameReference, PaymentsTypeOK
  <2>2. rows' = rows /\ newest' = newest /\ p \in rows /\ method[p] = "openbanking"
    BY <1>7, <1>t DEF Complete, PeopleKnow, vars, opening, table, webhooks, people, history
  <2>3. \A q \in rows : ref[q] = ref[p] => q = p
    BY <1>t, <2>2 DEF References, StoredHaveReferences, PaymentsTypeOK
  <2>4. AsRecorded(p)'
    BY <2>2 DEF AsRecorded, Notified, GoesOn
  <2>5. QED
    BY <1>o, <2>1, <2>2, <2>3, <2>4
<1>8. ASSUME NEW p \in Payments, ConfirmPayment(p) PROVE \A q \in Payments : AsRecorded(q)'
  <2>1. rows' = rows /\ newest' = newest /\ seen' = seen /\ method[p] = "banktransfer" /\ p \in Payments
    BY <1>8, <1>t DEF ConfirmPayment, PeopleKnow, PaymentsTypeOK, vars, opening, table, webhooks, people, history
  <2>2. \A q \in Payments : q # p => status'[q] = status[q]
    BY <1>8, <1>t DEF ConfirmPayment, PaymentsTypeOK
  <2>3. AsRecorded(p)'
    BY <2>1 DEF AsRecorded, Notified, GoesOn
  <2>4. QED
    BY <1>o, <2>1, <2>2, <2>3
<1>9. ASSUME NEW p \in Payments, OpenTransaction(p) PROVE \A q \in Payments : AsRecorded(q)'
  BY <1>9, <1>g DEF OpenTransaction, vars, opening, table, webhooks, people, history
<1>10. ASSUME NEW p \in Payments, ConfirmTransaction(p) PROVE \A q \in Payments : AsRecorded(q)'
  <2>1. rows' = rows /\ newest' = newest /\ seen' = seen /\ method[p] = "banktransfer" /\ p \in Payments
    BY <1>10, <1>t DEF ConfirmTransaction, PeopleKnow, PaymentsTypeOK, vars, opening, table, webhooks, people, history
  <2>2. \A q \in Payments : q # p => status'[q] = status[q]
    BY <1>10, <1>t DEF ConfirmTransaction, PaymentsTypeOK
  <2>3. AsRecorded(p)'
    BY <2>1 DEF AsRecorded, Notified, GoesOn
  <2>4. QED
    BY <1>o, <2>1, <2>2, <2>3
<1>11. ASSUME NEW p \in Payments, NEW k \in EventNumbers, LookUp(p, k) PROVE \A q \in Payments : AsRecorded(q)'
  BY <1>11, <1>g DEF LookUp, vars, opening, table, webhooks, people, history
<1>12. ASSUME NEW p \in Payments, NEW k \in EventNumbers, UpdateStatus(p, k) PROVE \A q \in Payments : AsRecorded(q)'
  <2>f. PICK f : f = found[p][k]
    OBVIOUS
  <2>1. Notified(p) /\ k \in DOMAIN events[p] /\ f \in rows /\ f \in Payments /\ ref[f] = ref[p] /\ rows' = rows /\ seen' = seen
    BY <1>12, <1>t, <2>f DEF UpdateStatus, HeldIsFound, PaymentsTypeOK, vars, opening, table, webhooks, people, history
  <2>2. \/ status' = status /\ newest' = newest
        \/ /\ status' = [status EXCEPT ![f] = StatusFor(p, k)]
           /\ IF k < newest[p] THEN newest' = newest ELSE newest' = [newest EXCEPT ![p] = k]
    BY <1>12, <2>f DEF UpdateStatus
  <2>3. \A q \in Payments : q # f => status'[q] = status[q]
    BY <1>t, <2>2 DEF PaymentsTypeOK
  <2>4. \A q \in Payments : q # p => newest'[q] = newest[q]
    BY <1>t, <2>2 DEF PaymentsTypeOK
  <2>5. ASSUME p # f PROVE AsRecorded(p)' /\ AsRecorded(f)'
    <3>1. Shares(f, p)'
      BY <1>s, <2>1, <2>5 DEF Shares
    <3>2. Shares(p, f)'
      BY <3>1 DEF Shares
    <3>3. QED
      BY <2>1, <3>1, <3>2 DEF AsRecorded
  <2>6. ASSUME p = f PROVE AsRecorded(p)'
    <3>1. CASE status' = status /\ newest' = newest
      BY <1>o, <2>1, <3>1
    <3>2. CASE /\ status' = [status EXCEPT ![f] = StatusFor(p, k)]
               /\ IF k < newest[p] THEN newest' = newest ELSE newest' = [newest EXCEPT ![p] = k]
      <4> SUFFICES ASSUME StatusFor(p, k) = "succeeded" PROVE AsRecorded(p)'
        <5>1. status'[p] = StatusFor(p, k)
          BY <1>t, <2>6, <3>2 DEF PaymentsTypeOK
        <5>2. QED
          BY <5>1 DEF AsRecorded
      <4>1. events[p][k] \in MoneyKinds
        BY <1>t, <2>1, StatusForFits
      <4>2. k = Len(events[p]) /\ newest[p] <= Len(events[p]) /\ newest[p] \in Nat /\ k \in Nat
        <5>1. newest[p] \in 0 .. MaxEvents /\ k \in 1 .. MaxEvents
          BY <1>t DEF PaymentsTypeOK, EventNumbers
        <5>2. QED
          BY <1>t, <2>1, <4>1, <5>1 DEF MoneyIsLast
      <4>3. newest' = [newest EXCEPT ![p] = k]
        BY <3>2, <4>2
      <4>4. newest'[p] = k
        BY <1>t, <4>3 DEF PaymentsTypeOK
      <4>5. k \in DOMAIN events'[p] /\ events'[p][k] \in MoneyKinds
        BY <2>1, <4>1 DEF GoesOn
      <4>6. method'[p] # "openbanking"
        BY <2>1 DEF Notified, GoesOn
      <4>7. QED
        BY <4>4, <4>5, <4>6 DEF AsRecorded
    <3>3. QED
      BY <2>2, <3>1, <3>2
  <2>7. QED
    BY <1>o, <2>1, <2>3, <2>4, <2>5, <2>6
<1>13. ASSUME NEW p \in Payments, NEW k \in EventNumbers, WebhookFails(p, k) PROVE \A q \in Payments : AsRecorded(q)'
  BY <1>13, <1>g DEF WebhookFails, vars, opening, table, webhooks, people, history
<1>14. ASSUME CountTransactions PROVE \A q \in Payments : AsRecorded(q)'
  BY <1>14, <1>g DEF CountTransactions, vars, opening, table, webhooks, people, history
<1>15. ASSUME DeleteRequest PROVE \A q \in Payments : AsRecorded(q)'
  BY <1>15, <1>g DEF DeleteRequest, vars, opening, table, webhooks, people, history
<1>16. CASE UNCHANGED vars
  BY <1>16, <1>g DEF vars, opening, table, webhooks, people, history
<1>17. QED BY <1>1, <1>2, <1>3, <1>4, <1>5, <1>6, <1>7, <1>8, <1>9, <1>10, <1>11, <1>12, <1>13, <1>14, <1>15, <1>16 DEF PaymentsNext

LEMMA OrderInvStep == PaymentsInv /\ OrderInv /\ [PaymentsNext]_vars => OrderInv'
<1> SUFFICES ASSUME PaymentsInv, OrderInv, [PaymentsNext]_vars PROVE OrderInv'
  OBVIOUS
<1>1. PaymentsTypeOK' /\ GoesOn
  BY PaymentsTypeStep, ItGoesOn
<1>2. MoneyIsLast'
  BY <1>1, MoneyIsLastStep
<1>3. QED
  BY <1>1, <1>2, AsRecordedStep DEF OrderInv

LEMMA OrderInvHolds == PaymentsSpec => [](PaymentsInv /\ OrderInv)
<1>1. PaymentsSpec => []OrderInv
  BY PaymentsInvHolds, OrderInvInit, OrderInvStep, PTL DEF PaymentsSpec
<1>2. QED
  BY <1>1, PaymentsInvHolds, PTL

\* What PaidStaysPaid says of one row.
Kept(q) ==
  status[q] = "succeeded" /\ Paid(q) /\ status'[q] # "succeeded" =>
    \/ q \in late'
    \/ ConfirmPayment(q)
    \/ q \in erred
    \/ \E s \in Payments : Shares(q, s)

LEMMA PaidStaysPaidStep ==
  ASSUME PaymentsInv, OrderInv, [PaymentsNext]_vars, NEW q \in rows
  PROVE Kept(q)
<1>t. PaymentsTypeOK /\ MoneyIsLast /\ References /\ StoredHaveReferences /\ EventsFit
      /\ HeldIsFound /\ PeopleKnow /\ q \in Payments /\ AsRecorded(q)
  BY DEF PaymentsInv, OrderInv, PaymentsTypeOK
<1>g. ASSUME status'[q] = status[q] PROVE Kept(q)
  BY <1>g DEF Kept
<1>1. ASSUME NEW p \in Payments, DrawReference(p) PROVE Kept(q)
  BY <1>1, <1>g DEF DrawReference, vars, opening, table, webhooks, people, history
<1>2. ASSUME NEW p \in Payments, OpenAtProvider(p) PROVE Kept(q)
  BY <1>2, <1>g DEF OpenAtProvider, vars, opening, table, webhooks, people, history
<1>3. ASSUME NEW p \in Payments, OpeningFails(p) PROVE Kept(q)
  BY <1>3, <1>g DEF OpeningFails, vars, opening, table, webhooks, people, history
<1>4. ASSUME NEW p \in Payments, CreateTransaction(p) PROVE Kept(q)
  BY <1>4, <1>g DEF CreateTransaction, vars, opening, table, webhooks, people, history
<1>5. ASSUME NEW p \in Payments, ProviderEvent(p) PROVE Kept(q)
  BY <1>5, <1>g DEF ProviderEvent, vars, opening, table, webhooks, people, history
<1>6. ASSUME NEW p \in Payments, Return(p) PROVE Kept(q)
  BY <1>6, <1>g DEF Return, vars, opening, table, webhooks, people, history
<1>7. ASSUME NEW p \in Payments, Complete(p) PROVE Kept(q)
  <2>1. \A r \in rows : status'[r] = IF ref[r] = ref[p] THEN seen[p] ELSE status[r]
    BY <1>7, <1>t DEF Complete, SameReference, PaymentsTypeOK
  <2>2. p \in rows /\ method[p] = "openbanking" /\ seen[p] # None
    BY <1>7, <1>t DEF Complete, PeopleKnow
  <2>3. ASSUME ref[q] = ref[p] PROVE Kept(q)
    <3>1. q = p
      BY <1>t, <2>2, <2>3 DEF References, StoredHaveReferences, PaymentsTypeOK
    <3>2. Paid(p) => ~ HasFailed(p)
      <4>1. events[p] \in Seq(Kinds)
        BY <1>t, <3>1 DEF PaymentsTypeOK
      <4>2. \A k \in DOMAIN events[p] : k = 1
        BY <1>t, <2>2, <3>1, <4>1 DEF MoneyIsLast
      <4>3. QED
        BY <4>2 DEF Paid, HasFailed, MoneyKinds
    <3>3. QED
      BY <1>t, <2>1, <2>2, <2>3, <3>1, <3>2 DEF Kept, PeopleKnow
  <2>4. QED
    BY <1>g, <2>1, <2>3
<1>8. ASSUME NEW p \in Payments, ConfirmPayment(p) PROVE Kept(q)
  <2>1. \A r \in Payments : r # p => status'[r] = status[r]
    BY <1>8, <1>t DEF ConfirmPayment, PaymentsTypeOK
  <2>2. CASE q = p
    BY <1>8, <1>t, <2>2 DEF Kept, PaymentsTypeOK, PeopleKnow
  <2>3. QED
    BY <1>g, <1>t, <2>1, <2>2
<1>9. ASSUME NEW p \in Payments, OpenTransaction(p) PROVE Kept(q)
  BY <1>9, <1>g DEF OpenTransaction, vars, opening, table, webhooks, people, history
<1>10. ASSUME NEW p \in Payments, ConfirmTransaction(p) PROVE Kept(q)
  <2>1. \A r \in Payments : r # p => status'[r] = status[r]
    BY <1>10, <1>t DEF ConfirmTransaction, PaymentsTypeOK
  <2>2. CASE q = p
    BY <1>10, <1>t, <2>2 DEF Kept, PaymentsTypeOK, PeopleKnow, ConfirmTransaction
  <2>3. QED
    BY <1>g, <1>t, <2>1, <2>2
<1>11. ASSUME NEW p \in Payments, NEW k \in EventNumbers, LookUp(p, k) PROVE Kept(q)
  BY <1>11, <1>g DEF LookUp, vars, opening, table, webhooks, people, history
<1>12. ASSUME NEW p \in Payments, NEW k \in EventNumbers, UpdateStatus(p, k) PROVE Kept(q)
  <2> DEFINE f == found[p][k]
  <2>1. Notified(p) /\ k \in DOMAIN events[p] /\ f \in rows /\ f \in Payments /\ ref[f] = ref[p]
    BY <1>12, <1>t DEF UpdateStatus, HeldIsFound, PaymentsTypeOK
  <2> SUFFICES ASSUME status[q] = "succeeded", Paid(q), status'[q] # "succeeded",
                      \A s \in Payments : ~ Shares(q, s)
               PROVE  q \in late'
    BY DEF Kept
  <2>2. status' # status
    OBVIOUS
  <2>3. /\ status' = [status EXCEPT ![f] = StatusFor(p, k)]
        /\ k < newest[p] => late' = late \union {f}
    BY <1>12, <2>2 DEF UpdateStatus
  <2>4. f = q
    BY <1>t, <2>3 DEF PaymentsTypeOK
  <2>5. p = q
    BY <2>1, <2>4 DEF Shares
  <2>6. newest[p] \in DOMAIN events[p] /\ events[p][newest[p]] \in MoneyKinds
    BY <1>t, <2>1, <2>5 DEF AsRecorded
  <2>7. newest[p] = Len(events[p])
    BY <1>t, <2>6 DEF MoneyIsLast
  <2>8. status'[q] = StatusFor(p, k)
    BY <1>t, <2>3, <2>4 DEF PaymentsTypeOK
  <2>9. events[p][k] \notin MoneyKinds
    BY <1>t, <2>1, <2>8 DEF StatusFor, StripeStatus, RealexStatus, MoneyKinds, EventsFit, KindsOf, Notified
  <2>10. k # newest[p]
    BY <2>6, <2>9
  <2>11. k < newest[p]
    <3>1. events[p] \in Seq(Kinds)
      BY <1>t DEF PaymentsTypeOK
    <3>2. k \in 1 .. Len(events[p]) /\ Len(events[p]) \in Nat
      BY <2>1, <3>1
    <3>3. QED
      BY <2>7, <2>10, <3>2
  <2>12. QED
    BY <2>3, <2>4, <2>11
<1>13. ASSUME NEW p \in Payments, NEW k \in EventNumbers, WebhookFails(p, k) PROVE Kept(q)
  BY <1>13, <1>g DEF WebhookFails, vars, opening, table, webhooks, people, history
<1>14. ASSUME CountTransactions PROVE Kept(q)
  BY <1>14, <1>g DEF CountTransactions, vars, opening, table, webhooks, people, history
<1>15. ASSUME DeleteRequest PROVE Kept(q)
  BY <1>15, <1>g DEF DeleteRequest, vars, opening, table, webhooks, people, history
<1>16. CASE UNCHANGED vars
  BY <1>16, <1>g DEF vars, opening, table, webhooks, people, history
<1>17. QED BY <1>1, <1>2, <1>3, <1>4, <1>5, <1>6, <1>7, <1>8, <1>9, <1>10, <1>11, <1>12, <1>13, <1>14, <1>15, <1>16 DEF PaymentsNext

\* A success on record that is one is overwritten only by a webhook that comes
\* after a later one's, by the citizen's own confirmation, by the return page
\* under a URL with an error, or under a shared reference.
THEOREM PaidStaysPaidCorrect == PaymentsSpec => PaidStaysPaid
<1>1. PaymentsInv /\ OrderInv /\ [PaymentsNext]_vars =>
        [\A p \in rows :
           status[p] = "succeeded" /\ Paid(p) /\ status'[p] # "succeeded" =>
             \/ p \in late'
             \/ ConfirmPayment(p)
             \/ p \in erred
             \/ \E q \in Payments : Shares(p, q)]_vars
  BY PaidStaysPaidStep DEF Kept
<1>2. QED
  BY <1>1, OrderInvHolds, PTL DEF PaymentsSpec, PaidStaysPaid

=============================================================================
