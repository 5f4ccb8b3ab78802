---------------------------- MODULE OrderPayment ----------------------------
(***************************************************************************)
(* Orders, payments and the Razorpay webhook (apps/api/routes/orders).     *)
(*                                                                         *)
(* All handlers run on one event loop over dictionaries of the process, so *)
(* a handler is atomic up to its first real suspension.  Only one handler  *)
(* suspends in the middle: initiate_payment awaits the provider's answer   *)
(* between the checks it makes and the writes that rely on them, and only  *)
(* when provider keys are configured.                                      *)
(***************************************************************************)
EXTENDS Integers, Sequences, FiniteSetsExt, CommerceStates

CONSTANTS
  OrderIds, ProviderIds,   \* ids drawn by uuid4 and by the provider
  Keys,                    \* idempotency keys clients send
  Handlers,                \* concurrent initiate_payment requests
  NoId,                    \* JSON null / None in place of a provider order id
  KeyModes,                \* the values of keysConfigured looked at
  UnlinkedPayments,        \* does the account take payments without an order?
  MaxEvents,               \* bound on a chain that duplicated webhooks extend
  MaxRestarts              \* bound on restarts of the API process

ASSUME ModeAssumption  == KeyModes \subseteq BOOLEAN /\ UnlinkedPayments \in BOOLEAN
ASSUME BoundAssumption == MaxEvents \in Nat /\ MaxRestarts \in Nat
ASSUME IdAssumption    == NoId \notin OrderIds \cup ProviderIds /\ OrderIds \cap ProviderIds = {}

VARIABLES
  orders,          \* order store: id -> status, "absent" when not stored
  payments,        \* _payments, in insertion order
  chain,           \* _evidence_chains: id -> sequence of event types
  inflight,        \* what each suspended initiate_payment has read
  issued,          \* order ids drawn so far
  keysConfigured,  \* are razorpay_key_id and _key_secret set? as at every start
  providerOrders,  \* orders created at the provider and known to a client
  captured,        \* what the provider captured, by reference
  sent,            \* webhooks the provider (re)delivers until it gets a 200
  acked,           \* webhooks that got one
  restarts

process  == << orders, payments, chain, inflight >>
provider == << keysConfigured, providerOrders, captured, sent >>
vars     == << process, provider, issued, acked, restarts >>

-----------------------------------------------------------------------------
Refs == OrderIds \cup ProviderIds \cup {NoId}

Webhook == [ref : Refs, status : {"captured", "failed", "authorized"}]

Payment ==
  [ order : OrderIds, key : Keys, provider_order : ProviderIds \cup {NoId},
    local_state : {"initiated", "completed", "failed"},
    provider_confirmed_state : {"none", "captured", "failed"},
    is_paid : BOOLEAN ]

Idle == [busy |-> FALSE]

Events == {"order.created", "payment.initiated", "payment.provider_confirmed"}

NewPayment(o, k, p) ==
  [ order |-> o, key |-> k, provider_order |-> p, local_state |-> "initiated",
    provider_confirmed_state |-> "none", is_paid |-> FALSE ]

-----------------------------------------------------------------------------
Init ==
  /\ orders = [o \in OrderIds |-> "absent"]
  /\ payments = << >>
  /\ chain = [o \in OrderIds |-> << >>]
  /\ inflight = [h \in Handlers |-> Idle]
  /\ issued = {} /\ providerOrders = {} /\ captured = {} /\ sent = {} /\ acked = {}
  /\ restarts = 0
  /\ keysConfigured \in KeyModes

(***************************************************************************)
(* POST /orders.                                                           *)
(***************************************************************************)
CreateOrder(o) ==
  /\ o \notin issued
  /\ issued' = issued \cup {o}
  /\ orders' = [orders EXCEPT ![o] = "created"]
  /\ chain' = [chain EXCEPT ![o] = << "order.created" >>]
  /\ UNCHANGED << payments, inflight, provider, acked, restarts >>

-----------------------------------------------------------------------------
\* Mutants: the key is not looked up; the status is not looked at.
MayInitiateAgain(o, k) == orders[o] \in {"created", "payment_pending"}

MayInitiateAlways(o, k) ==
  orders[o] # "absent" /\ \A i \in DOMAIN payments : payments[i].key # k

\* The checks of initiate_payment: 404, 409, then the scan for the key, which
\* answers with the payment found and changes nothing.
MayInitiate(o, k) ==
  /\ orders[o] \in {"created", "payment_pending"}
  /\ \A i \in DOMAIN payments : payments[i].key # k

\* Mutants: the event's name is stored as the status; the event is not logged.
RecordPaymentMisnamed(o, k, p) ==
  /\ payments' = Append(payments, NewPayment(o, k, p))
  /\ orders' = [orders EXCEPT ![o] = "payment_initiated"]
  /\ chain' = [chain EXCEPT ![o] = Append(@, "payment.initiated")]

RecordPaymentUnlogged(o, k, p) ==
  /\ payments' = Append(payments, NewPayment(o, k, p))
  /\ orders' = [orders EXCEPT ![o] = "payment_pending"]
  /\ UNCHANGED chain

\* Its writes: insert the payment, set the order's status whatever it is by
\* now, extend the chain.
RecordPayment(o, k, p) ==
  /\ payments' = Append(payments, NewPayment(o, k, p))
  /\ orders' = [orders EXCEPT ![o] = "payment_pending"]
  /\ chain' = [chain EXCEPT ![o] = Append(@, "payment.initiated")]

(***************************************************************************)
(* POST /orders/{id}/payment without provider keys: one atomic step.       *)
(***************************************************************************)
InitiateLocally(o, k) ==
  /\ ~ keysConfigured
  /\ MayInitiate(o, k)
  /\ RecordPayment(o, k, NoId)
  /\ UNCHANGED << inflight, provider, issued, acked, restarts >>

(***************************************************************************)
(* The same request with provider keys, up to the await of the POST.       *)
(***************************************************************************)
InitiateAtProvider(h, o, k) ==
  /\ keysConfigured
  /\ inflight[h] = Idle
  /\ MayInitiate(o, k)
  /\ inflight' = [inflight EXCEPT ![h] = [busy |-> TRUE, order |-> o, key |-> k]]
  /\ UNCHANGED << orders, payments, chain, provider, issued, acked, restarts >>

(***************************************************************************)
(* The provider answered 200 with a new order id, and the request resumes. *)
(***************************************************************************)
ProviderAccepted(h, p) ==
  /\ inflight[h].busy
  /\ p \notin providerOrders
  /\ RecordPayment(inflight[h].order, inflight[h].key, p)
  /\ inflight' = [inflight EXCEPT ![h] = Idle]
  /\ providerOrders' = providerOrders \cup {p}
  /\ UNCHANGED << keysConfigured, captured, sent, issued, acked, restarts >>

(***************************************************************************)
(* Another status, a timeout or any exception: the request goes on in      *)
(* "local-only mode".  An order the provider may have created all the same *)
(* is known to nobody and is left out.                                     *)
(***************************************************************************)
ProviderUnavailable(h) ==
  /\ inflight[h].busy
  /\ RecordPayment(inflight[h].order, inflight[h].key, NoId)
  /\ inflight' = [inflight EXCEPT ![h] = Idle]
  /\ UNCHANGED << provider, issued, acked, restarts >>

-----------------------------------------------------------------------------
\* What can be paid outside the process: orders created at the provider; our
\* own order id where no provider is configured (a simulated provider, for
\* which the webhook compares order ids); and, where the account takes them,
\* payments that belong to no order, whose order_id is null.
Payable ==
  providerOrders
    \cup {o \in OrderIds : ~ keysConfigured /\ orders[o] = "payment_pending"}
    \cup {r \in {NoId} : UnlinkedPayments}

(***************************************************************************)
(* The provider: attempts to pay are authorized and fail any number of     *)
(* times before one is captured, and each emits a webhook.                 *)
(***************************************************************************)
Attempt(r, status) ==
  /\ r \in Payable \ captured
  /\ sent' = sent \cup {[ref |-> r, status |-> status]}
  /\ captured' = IF status = "captured" THEN captured \cup {r} ELSE captured
  /\ UNCHANGED << process, keysConfigured, providerOrders, issued, acked, restarts >>

-----------------------------------------------------------------------------
\* Mutants: any payment will do; the provider's order id is not compared.
MatchesAny(m) == DOMAIN payments

MatchesByOrder(m) == {i \in DOMAIN payments : payments[i].order = m.ref}

\* The scan of razorpay_webhook takes the first payment that matches.
Matches(m) ==
  {i \in DOMAIN payments : payments[i].order = m.ref \/ payments[i].provider_order = m.ref}

Matched(m) == Min(Matches(m))

\* Webhooks arrive in any order, and again after a 200 (bounded by MaxEvents).
Arrives(m) ==
  /\ m \in sent
  /\ m \in acked => \A o \in OrderIds : Len(chain[o]) < MaxEvents
  /\ acked' = acked \cup {m}

(***************************************************************************)
(* POST /orders/webhook/razorpay.  Any verified webhook gets a 200:        *)
(* "no_matching_payment" without a payment, "ok" with one.                 *)
(***************************************************************************)
WebhookUnmatched(m) ==
  /\ Arrives(m)
  /\ Matches(m) = {}
  /\ UNCHANGED << process, provider, issued, restarts >>

WebhookCaptured(m) ==
  /\ Arrives(m)
  /\ m.status = "captured" /\ Matches(m) # {}
  /\ LET i == Matched(m)
         o == payments[i].order
     IN /\ payments' = [payments EXCEPT ![i].provider_confirmed_state = "captured",
                                        ![i].local_state = "completed",
                                        ![i].is_paid = TRUE]
        /\ orders' = [orders EXCEPT ![o] = "paid"]
        /\ chain' = [chain EXCEPT ![o] = Append(@, "payment.provider_confirmed")]
  /\ UNCHANGED << inflight, provider, issued, restarts >>

WebhookFailed(m) ==
  /\ Arrives(m)
  /\ m.status = "failed" /\ Matches(m) # {}
  /\ payments' = [payments EXCEPT ![Matched(m)].provider_confirmed_state = "failed",
                                  ![Matched(m)].local_state = "failed",
                                  ![Matched(m)].is_paid = FALSE]
  /\ UNCHANGED << orders, chain, inflight, provider, issued, restarts >>

WebhookIgnored(m) ==
  /\ Arrives(m)
  /\ m.status \notin {"captured", "failed"} /\ Matches(m) # {}
  /\ UNCHANGED << process, provider, issued, restarts >>

Deliver(m) ==
  WebhookUnmatched(m) \/ WebhookCaptured(m) \/ WebhookFailed(m) \/ WebhookIgnored(m)

(***************************************************************************)
(* The API process restarts: its dictionaries and suspended requests are   *)
(* gone; what the provider did, and will still deliver, is not.            *)
(***************************************************************************)
Restart ==
  /\ restarts < MaxRestarts
  /\ restarts' = restarts + 1
  /\ orders' = [o \in OrderIds |-> "absent"]
  /\ payments' = << >>
  /\ chain' = [o \in OrderIds |-> << >>]
  /\ inflight' = [h \in Handlers |-> Idle]
  /\ UNCHANGED << provider, issued, acked >>

Next ==
  \/ \E o \in OrderIds : CreateOrder(o)
  \/ \E o \in OrderIds, k \in Keys : InitiateLocally(o, k)
  \/ \E h \in Handlers, o \in OrderIds, k \in Keys : InitiateAtProvider(h, o, k)
  \/ \E h \in Handlers, p \in ProviderIds : ProviderAccepted(h, p)
  \/ \E h \in Handlers : ProviderUnavailable(h)
  \/ \E r \in Refs, s \in {"captured", "failed", "authorized"} : Attempt(r, s)
  \/ \E m \in Webhook : Deliver(m)
  \/ Restart

Spec == Init /\ [][Next]_vars

\* The provider redelivers a webhook until it gets a 200.
FairSpec == Spec /\ \A m \in Webhook : WF_vars(Deliver(m) /\ m \notin acked)

-----------------------------------------------------------------------------
(***************************************************************************)
(* Every variable keeps its type.                                          *)
(***************************************************************************)
TypeOK ==
  /\ orders \in [OrderIds -> {"absent", "created", "payment_pending", "paid"}]
  /\ payments \in Seq(Payment)
  /\ chain \in [OrderIds -> Seq(Events)]
  /\ inflight \in [Handlers -> {Idle} \cup [busy : {TRUE}, order : OrderIds, key : Keys]]
  /\ issued \subseteq OrderIds
  /\ providerOrders \subseteq ProviderIds /\ captured \subseteq Refs
  /\ sent \subseteq Webhook /\ acked \subseteq sent
  /\ restarts \in 0 .. MaxRestarts /\ keysConfigured \in BOOLEAN

PaymentsOf(o) == {i \in DOMAIN payments : payments[i].order = o}

(***************************************************************************)
(* Payment.is_paid (domain/order.py): "ONLY true if the PROVIDER confirmed *)
(* capture".  An order is paid, and a payment counts as paid, only when    *)
(* the provider did capture a payment made for that order; no failure,     *)
(* duplicate, late webhook or restart makes up a capture.                  *)
(***************************************************************************)
CapturedFor(o) ==
  o \in captured \/ \E i \in PaymentsOf(o) : payments[i].provider_order \in captured \ {NoId}

PaidMeansCaptured ==
  \A o \in OrderIds :
    orders[o] = "paid" \/ (\E i \in PaymentsOf(o) : payments[i].is_paid) => CapturedFor(o)

(***************************************************************************)
(* README invariant 7, "Payment idempotency enforced by database           *)
(* uniqueness": an idempotency key stands for one payment.                 *)
(***************************************************************************)
PaymentKeyUnique ==
  \A i, j \in DOMAIN payments : payments[i].key = payments[j].key => i = j

(***************************************************************************)
(* The same where no provider keys are configured, and so no handler       *)
(* suspends between the lookup and the insertion (orders.py:221, 286).     *)
(***************************************************************************)
LocalKeysUnique == ~ keysConfigured => PaymentKeyUnique

(***************************************************************************)
(* commerce_states.py, ORDER_SM: whatever handlers overlap, a stored order *)
(* changes status along the table.  (No route calls ORDER_SM.)             *)
(***************************************************************************)
AlongTable(o) ==
  \/ orders'[o] = orders[o]
  \/ "absent" \in {orders[o], orders'[o]}
  \/ IsStep(ORDER_SM, orders[o], orders'[o])

OrderFollowsSM == [][\A o \in OrderIds : AlongTable(o)]_vars

(***************************************************************************)
(* The same without provider keys: repeated initiations, webhooks in any   *)
(* order and a restart leave every order on the table.                     *)
(***************************************************************************)
LocalOrdersFollowSM == [][~ keysConfigured => \A o \in OrderIds : AlongTable(o)]_vars

(***************************************************************************)
(* The evidence of an order is complete where the chain is written: it     *)
(* opens with the creation, holds one initiation per payment, and one      *)
(* confirmation at least, after an initiation, for an order that is paid.  *)
(***************************************************************************)
EventsOf(o, e) == {n \in DOMAIN chain[o] : chain[o][n] = e}

EvidenceComplete ==
  \A o \in {x \in OrderIds : orders[x] # "absent"} :
    /\ EventsOf(o, "order.created") = {1}
    /\ Cardinality(EventsOf(o, "payment.initiated")) = Cardinality(PaymentsOf(o))
    /\ orders[o] = "paid" => EventsOf(o, "payment.provider_confirmed") # {}
    /\ \A n \in EventsOf(o, "payment.provider_confirmed") :
         \E l \in EventsOf(o, "payment.initiated") : l < n

(***************************************************************************)
(* No capture goes unrecorded: provided the provider redelivers webhooks   *)
(* that were not acknowledged, every capture of an order's payments ends   *)
(* up as a confirmation in the order's evidence, also when two payments of *)
(* one order are captured and whatever requests are suspended meanwhile.   *)
(***************************************************************************)
CapturedOf(o) == {i \in PaymentsOf(o) : payments[i].provider_order \in captured}

CaptureIsRecorded ==
  []<>(\A o \in OrderIds :
         Cardinality(CapturedOf(o)) <= Cardinality(EventsOf(o, "payment.provider_confirmed")))

(***************************************************************************)
(* The part of it that every step keeps: the provider stops redelivering   *)
(* at the first 200, so a 200 may be given for a capture only when its     *)
(* confirmation is in the evidence.  Of the captures of an order's         *)
(* payments, those whose webhook is no longer owed are all confirmed.      *)
(***************************************************************************)
Owed(i) == [ref |-> payments[i].provider_order, status |-> "captured"] \in sent \ acked

SettledOf(o) == {i \in CapturedOf(o) : payments[i].provider_order # NoId /\ ~ Owed(i)}

NoCaptureIsLost ==
  \A o \in OrderIds :
    Cardinality(SettledOf(o)) <= Cardinality(EventsOf(o, "payment.provider_confirmed"))

-----------------------------------------------------------------------------
(***************************************************************************)
(* commerce_states.py: "Only provider_confirmed_state is authoritative for *)
(* 'paid'".  A paid order has a payment whose provider state says so.      *)
(***************************************************************************)
PaidOrderHasPaidPayment ==
  \A o \in OrderIds : orders[o] = "paid" => \E i \in PaymentsOf(o) : payments[i].is_paid
=============================================================================
