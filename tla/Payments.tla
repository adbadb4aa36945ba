------------------------------ MODULE Payments ------------------------------
(***************************************************************************)
(* The transactions of payments-api.  A payment is one opened page: it     *)
(* gets a reference, from payments-api or from the provider, stores a row  *)
(* under it, and from then on the row's status is overwritten by whoever   *)
(* has news: webhooks of Stripe and Realex, the page a citizen returns to  *)
(* from TrueLayer, the citizen and the public servant of a bank transfer.  *)
(* No update looks at the status it replaces, webhooks are repeated until  *)
(* they are answered and come in any order, and references are compared    *)
(* with stored rows only.                                                  *)
(*                                                                         *)
(* One payment request that may be deleted; all payments are for it.       *)
(***************************************************************************)
EXTENDS Naturals, Sequences, FiniteSets

CONSTANTS Payments,   \* pages opened
          Refs,       \* references generatePaymentIntentId may draw
          None,
          Mixes,      \* how the payments may be paid
          MaxEvents,  \* bound on the events of a payment at its provider
          MaxFaults   \* bound on webhooks that fail

Methods == {"stripe", "realex", "openbanking", "banktransfer"}
Statuses == {"initiated", "pending", "succeeded", "cancelled", "failed"}

ASSUME PaymentsAssumption ==
  /\ Mixes \subseteq [Payments -> Methods]
  /\ None \notin Payments \union Refs \union Statuses
  /\ Payments \intersect Refs = {}
  /\ MaxEvents \in Nat
  /\ MaxFaults \in Nat

VARIABLES
  method,   \* how it is paid
  page,     \* how far its page is
  ref,      \* ext_payment_id; a provider's own reference is the payment itself
  rows,     \* payments with a row in payment_transactions
  status,   \* its status
  events,   \* what has become of the payment at its provider, in order
  notice,   \* where the webhook of an event is
  found,    \* the row it looked up
  seen,     \* what TrueLayer told the page the citizen returned to
  clerk,    \* payments a public servant is looking at, pending
  request,  \* the payment request
  faults,   \* failures so far
  overlaps, \* history: references drawn again before they were stored
  guessed,  \* history: taken for paid while TrueLayer was undecided
  erred,    \* history: taken for failed for the error in the page's URL
  newest,   \* history: the latest event of a payment a webhook has written
  late      \* history: rows that an earlier event was written to after it

opening == <<method, page, ref>>
table == <<rows, status>>
webhooks == <<notice, found>>
people == <<seen, clerk>>
history == <<overlaps, guessed, erred, newest, late>>
vars == <<opening, table, events, webhooks, people, request, faults, history>>

EventNumbers == 1 .. MaxEvents

\* What an event of Stripe or of Realex, or a status of TrueLayer, says.  What
\* Stripe reports otherwise is answered and not recorded, any other result of
\* Realex is a payment pending, any other status of TrueLayer a success.
StripeStatus ==
  [created |-> "initiated", requires_action |-> "pending", succeeded |-> "succeeded",
   canceled |-> "cancelled", payment_failed |-> "failed", processing |-> None]
RealexStatus ==
  [SUCCESSFUL |-> "succeeded", PENDING |-> "pending", DECLINED |-> "failed", UNLISTED |-> "pending"]
TrueLayerStatus ==
  [authorizing |-> "succeeded", executed |-> "succeeded", settled |-> "succeeded", failed |-> "failed"]

\* What happens to a payment at its provider, or at the bank, and which of it
\* is the money.
Kinds == DOMAIN StripeStatus \union DOMAIN RealexStatus
           \union DOMAIN TrueLayerStatus \union {"received"}
MoneyKinds == {"succeeded", "SUCCESSFUL", "executed", "settled", "received"}

PaymentsTypeOK ==
  /\ method \in [Payments -> Methods]
  /\ page \in [Payments -> {"new", "drawn", "shown", "failed"}]
  /\ ref \in [Payments -> Payments \union Refs \union {None}]
  /\ rows \in SUBSET Payments
  /\ status \in [Payments -> Statuses]
  /\ events \in [Payments -> Seq(Kinds)]
  /\ notice \in [Payments -> [EventNumbers -> {"due", "held", "heard"}]]
  /\ found \in [Payments -> [EventNumbers -> Payments \union {None}]]
  /\ seen \in [Payments -> Statuses \union {None}]
  /\ clerk \in SUBSET Payments
  /\ request \in {"kept", "counted", "deleted"}
  /\ faults \in 0 .. MaxFaults
  /\ overlaps \in SUBSET Refs
  /\ guessed \in SUBSET Payments
  /\ erred \in SUBSET Payments
  /\ newest \in [Payments -> 0 .. MaxEvents]
  /\ late \in SUBSET Payments

PaymentsInit ==
  /\ method \in Mixes
  /\ page = [p \in Payments |-> "new"]
  /\ ref = [p \in Payments |-> None]
  /\ rows = {}
  /\ status = [p \in Payments |-> "initiated"]
  /\ events = [p \in Payments |-> <<>>]
  /\ notice = [p \in Payments |-> [k \in EventNumbers |-> "due"]]
  /\ found = [p \in Payments |-> [k \in EventNumbers |-> None]]
  /\ seen = [p \in Payments |-> None]
  /\ clerk = {}
  /\ request = "kept"
  /\ faults = 0
  /\ overlaps = {} /\ guessed = {} /\ erred = {} /\ late = {}
  /\ newest = [p \in Payments |-> 0]

Paid(p) == \E k \in DOMAIN events[p] : events[p][k] \in MoneyKinds

\* Rows of the same request.
MistakenSameReference(p) == rows

\* Rows stored under the reference of p.
SameReference(p) == {q \in rows : ref[q] = ref[p]}

-----------------------------------------------------------------------------
(* The hosted pages: a reference, then the row.                            *)

\* References that are not compared with anything.
MistakenTaken == {}

\* ... NOT IN (SELECT ext_payment_id FROM payment_transactions)
Taken == {ref[p] : p \in rows}

DrawReference(p) ==
  /\ page[p] = "new" /\ method[p] \in {"realex", "banktransfer"}
  /\ \E r \in Refs \ Taken :
       /\ ref' = [ref EXCEPT ![p] = r]
       /\ overlaps' = IF \E q \in Payments : page[q] = "drawn" /\ ref[q] = r
                        THEN overlaps \union {r} ELSE overlaps
  /\ page' = [page EXCEPT ![p] = "drawn"]
  /\ UNCHANGED <<method, table, events, webhooks, people, request, faults, guessed, erred, newest, late>>

\* Stripe and TrueLayer know the payment before there is a row for it.
OpenAtProvider(p) ==
  /\ page[p] = "new" /\ method[p] \in {"stripe", "openbanking"}
  /\ ref' = [ref EXCEPT ![p] = p]
  /\ page' = [page EXCEPT ![p] = "drawn"]
  /\ events' = IF method[p] = "stripe" THEN [events EXCEPT ![p] = <<"created">>] ELSE events
  /\ UNCHANGED <<method, table, webhooks, people, request, faults, history>>

\* No unused reference among as many draws as are allowed, or the provider
\* or the lookup of the journey fails.
OpeningFails(p) ==
  /\ page[p] \in {"new", "drawn"}
  /\ page' = [page EXCEPT ![p] = "failed"]
  /\ UNCHANGED <<method, ref, table, events, webhooks, people, request, faults, history>>

\* The foreign key refuses a transaction for a request that is gone.
CreateTransaction(p) ==
  /\ page[p] = "drawn"
  /\ IF request = "deleted"
       THEN page' = [page EXCEPT ![p] = "failed"] /\ UNCHANGED rows
       ELSE /\ rows' = rows \union {p}
            /\ \E shown \in {"shown", "failed"} : page' = [page EXCEPT ![p] = shown]
  /\ UNCHANGED <<method, ref, status, events, webhooks, people, request, faults, history>>

-----------------------------------------------------------------------------
(* Providers and webhooks.                                                 *)

\* Nothing more becomes of a payment at its provider.
Settled(p) ==
  \E k \in DOMAIN events[p] :
    events[p][k] \in MoneyKinds \union {"canceled"} \/ method[p] = "openbanking"

Outcomes(p) ==
  CASE method[p] = "stripe" -> DOMAIN StripeStatus \ {"created"}
    [] method[p] = "realex" -> DOMAIN RealexStatus
    [] method[p] = "openbanking" -> {"executed", "settled", "failed"}
    [] method[p] = "banktransfer" -> {"received"}

ProviderEvent(p) ==
  /\ page[p] = "shown" /\ ~ Settled(p) /\ Len(events[p]) < MaxEvents
  /\ \E e \in Outcomes(p) : events' = [events EXCEPT ![p] = Append(@, e)]
  /\ UNCHANGED <<opening, table, webhooks, people, request, faults, history>>

Notified(p) == method[p] \in {"stripe", "realex"}

\* The first row with the reference, of those there are.  Without a row the
\* webhook is answered 404 and will be repeated.
LookUp(p, k) ==
  /\ Notified(p) /\ k \in DOMAIN events[p] /\ notice[p][k] # "held"
  /\ \E q \in SameReference(p) : found' = [found EXCEPT ![p][k] = q]
  /\ notice' = [notice EXCEPT ![p][k] = "held"]
  /\ UNCHANGED <<opening, table, events, people, request, faults, history>>

\* A reader that takes for a success what it does not know, and one that has
\* no case for success.
MistakenStatusFor(p, k) ==
  IF events[p][k] \in {"succeeded", "processing", "UNLISTED"} THEN "succeeded" ELSE "pending"
MistakenSuccess(p, k) ==
  IF events[p][k] = "succeeded" THEN None ELSE "pending"

\* getTransactionStatusFromStripeEventType, getTransactionStatus.
StatusFor(p, k) ==
  IF method[p] = "stripe" THEN StripeStatus[events[p][k]] ELSE RealexStatus[events[p][k]]

\* The event is verified with the secrets of the row's provider.
UpdateStatus(p, k) ==
  /\ notice[p][k] = "held" /\ method[found[p][k]] = method[p]
  /\ notice' = [notice EXCEPT ![p][k] = "heard"]
  /\ found' = [found EXCEPT ![p][k] = None]
  /\ IF StatusFor(p, k) = None
       THEN UNCHANGED <<status, newest, late>>
       ELSE /\ status' = [status EXCEPT ![found[p][k]] = StatusFor(p, k)]
            /\ IF k < newest[p]
                 THEN late' = late \union {found[p][k]} /\ UNCHANGED newest
                 ELSE newest' = [newest EXCEPT ![p] = k] /\ UNCHANGED late
  /\ UNCHANGED <<opening, rows, events, people, request, faults, overlaps, guessed, erred>>

\* The provider is not connected, the statement fails, the process dies; or
\* the row is another provider's.
WebhookFails(p, k) ==
  /\ notice[p][k] = "held"
  /\ \/ faults < MaxFaults /\ faults' = faults + 1
     \/ method[found[p][k]] # method[p] /\ UNCHANGED faults
  /\ notice' = [notice EXCEPT ![p][k] = "due"]
  /\ found' = [found EXCEPT ![p][k] = None]
  /\ UNCHANGED <<opening, table, events, people, request, history>>

-----------------------------------------------------------------------------
(* People.                                                                 *)

Answer(p) == IF events[p] = <<>> THEN "authorizing" ELSE events[p][1]

\* getInternalStatus of what TrueLayer answers.
InternalStatus(p) == TrueLayerStatus[Answer(p)]

\* The citizen opens the page to return to: sent there by TrueLayer, maybe
\* with an error, or once more, when the payment may be past that error.  The
\* error in the URL outweighs what TrueLayer answers.
Return(p) ==
  /\ page[p] = "shown" /\ method[p] = "openbanking" /\ seen[p] = None
  /\ \/ /\ seen' = [seen EXCEPT ![p] = InternalStatus(p)]
        /\ guessed' = IF InternalStatus(p) = "succeeded" /\ ~ Paid(p)
                        THEN guessed \union {p} ELSE guessed
        /\ UNCHANGED erred
     \/ /\ seen' = [seen EXCEPT ![p] = "failed"]
        /\ erred' = erred \union {p}
        /\ UNCHANGED guessed
  /\ UNCHANGED <<opening, table, events, webhooks, clerk, request, faults, overlaps, newest, late>>

Complete(p) ==
  /\ seen[p] # None
  /\ status' = [q \in Payments |-> IF q \in SameReference(p) THEN seen[p] ELSE status[q]]
  /\ seen' = [seen EXCEPT ![p] = None]
  /\ UNCHANGED <<opening, rows, events, webhooks, clerk, request, faults, history>>

\* "I have paid", as often as the citizen says so.
ConfirmPayment(p) ==
  /\ page[p] = "shown" /\ method[p] = "banktransfer"
  /\ status' = [status EXCEPT ![p] = "pending"]
  /\ UNCHANGED <<opening, rows, events, webhooks, people, request, faults, history>>

\* A public servant who has found the money opens the transaction.
OpenTransaction(p) ==
  /\ p \in rows \ clerk /\ method[p] = "banktransfer" /\ status[p] = "pending"
  /\ \E q \in Payments : ref[q] = ref[p] /\ method[q] = "banktransfer" /\ Paid(q)
  /\ clerk' = clerk \union {p}
  /\ UNCHANGED <<opening, table, events, webhooks, seen, request, faults, history>>

ConfirmTransaction(p) ==
  /\ p \in clerk
  /\ status' = [status EXCEPT ![p] = "succeeded"]
  /\ clerk' = clerk \ {p}
  /\ UNCHANGED <<opening, rows, events, webhooks, seen, request, faults, history>>

\* DELETE of the request: refused while it has transactions, which are
\* counted before, and deleted after.
CountTransactions ==
  /\ request = "kept" /\ rows = {}
  /\ request' = "counted"
  /\ UNCHANGED <<opening, table, events, webhooks, people, faults, history>>

\* A deletion that trusts the count.
MistakenReferenced == request = "deleted"

\* What the foreign key does not let go.
Referenced == rows # {}

DeleteRequest ==
  /\ request = "counted"
  /\ request' = IF Referenced THEN "kept" ELSE "deleted"
  /\ UNCHANGED <<opening, table, events, webhooks, people, faults, history>>

-----------------------------------------------------------------------------
PaymentsNext ==
  \/ \E p \in Payments :
       \/ DrawReference(p) \/ OpenAtProvider(p) \/ OpeningFails(p)
       \/ CreateTransaction(p) \/ ProviderEvent(p)
       \/ Return(p) \/ Complete(p) \/ ConfirmPayment(p)
       \/ OpenTransaction(p) \/ ConfirmTransaction(p)
  \/ \E p \in Payments, k \in EventNumbers :
       LookUp(p, k) \/ UpdateStatus(p, k) \/ WebhookFails(p, k)
  \/ CountTransactions \/ DeleteRequest

PaymentsSpec == PaymentsInit /\ [][PaymentsNext]_vars

\* A webhook is repeated until it is answered, and answered.
WebhookFairness ==
  \A p \in Payments, k \in EventNumbers :
    /\ WF_vars(notice[p][k] = "due" /\ LookUp(p, k))
    /\ WF_vars(UpdateStatus(p, k))

PaymentsFairSpec == PaymentsSpec /\ WebhookFairness

-----------------------------------------------------------------------------
(* Properties.                                                             *)

Shares(p, q) == p # q /\ ref[p] = ref[q]

\* Nothing is taken for paid that was not, by any order of webhooks, returns
\* and confirmations, but for two cases: another payment has its reference, or
\* the citizen came back before TrueLayer had decided.
SucceededWasPaid ==
  \A p \in rows : status[p] = "succeeded" =>
    \/ Paid(p)
    \/ p \in guessed
    \/ \E q \in Payments : Shares(p, q) /\ Paid(q)

\* Two rows have one reference only if it was drawn for both while neither was
\* stored.
SharedReferenceNeedsOverlap ==
  \A p, q \in rows : Shares(p, q) => ref[p] \in overlaps

\* A payment that was recorded as succeeded, and was, stays so, unless a webhook
\* comes after one of a later event, the citizen of a bank transfer confirms
\* once more, the page a citizen returns to from TrueLayer is opened, or opened
\* once more, under a URL with an error, or another payment has its reference.
PaidStaysPaid ==
  [][\A p \in rows :
       status[p] = "succeeded" /\ Paid(p) /\ status'[p] # "succeeded" =>
         \/ p \in late'
         \/ ConfirmPayment(p)
         \/ p \in erred
         \/ \E q \in Payments : Shares(p, q)]_vars

\* A request that was deleted had no transactions, also none stored between
\* the count and the deletion.
DeletedWasUnused == request = "deleted" => rows = {}

\* A payment that succeeded at Stripe is recorded, whichever webhooks come before
\* its row or fail, unless one comes after one of a later event.
StripePaymentIsRecorded ==
  \A p \in Payments :
    method[p] = "stripe" /\ p \in rows /\ Paid(p)
      ~> status[p] = "succeeded" \/ p \in late
=============================================================================
