------------------------- MODULE OrderPaymentProofs -------------------------
(***************************************************************************)
(* Machine-checked theorems about OrderPayment: types and paid-means-      *)
(* captured in every mode, what the atomic mode (no provider keys)         *)
(* guarantees that the suspended one does not, and the evidence.           *)
(***************************************************************************)
EXTENDS OrderPayment, FiniteSetTheorems, WellFoundedInduction, SequenceTheorems, TLAPS

(***************************************************************************)
(* The least element of a non-empty set of naturals is in the set: the     *)
(* webhook's scan, which takes the first match, takes a match.             *)
(***************************************************************************)
LEMMA MinIsMember ==
  ASSUME NEW S \in SUBSET Nat, S # {}
  PROVE  Min(S) \in S /\ \A x \in S : Min(S) <= x
<1>1. PICK x \in S : \A y \in S : ~ (<<y, x>> \in OpToRel(<, Nat))
  BY NatLessThanWellFounded, WFMin
<1>2. \A y \in S : ~ (y < x)
  BY <1>1 DEF OpToRel
<1>3. \A y \in S : x <= y
  BY <1>2
<1> QED BY <1>3 DEF Min

LEMMA MatchedIsMatch ==
  ASSUME NEW m, payments \in Seq(Payment), Matches(m) # {}
  PROVE  /\ Matched(m) \in DOMAIN payments
         /\ \/ payments[Matched(m)].order = m.ref
            \/ payments[Matched(m)].provider_order = m.ref
<1>1. Matches(m) \in SUBSET Nat
  BY DEF Matches
<1>2. Matched(m) \in Matches(m)
  BY <1>1, MinIsMember DEF Matched
<1> QED BY <1>2 DEF Matches

-----------------------------------------------------------------------------
(* The three ways the list of payments and the statuses change.            *)

(***************************************************************************)
(* Recording a payment appends one that is open; the others stay.          *)
(***************************************************************************)
LEMMA RecordEffect ==
  ASSUME TypeOK, NEW o \in OrderIds, NEW k \in Keys, NEW p \in ProviderIds \cup {NoId},
         RecordPayment(o, k, p)
  PROVE  /\ payments' \in Seq(Payment)
         /\ DOMAIN payments' = DOMAIN payments \cup {Len(payments) + 1}
         /\ Len(payments) + 1 \notin DOMAIN payments
         /\ payments'[Len(payments) + 1] = NewPayment(o, k, p)
         /\ \A i \in DOMAIN payments : payments'[i] = payments[i]
         /\ orders' = [orders EXCEPT ![o] = "payment_pending"]
         /\ chain' \in [OrderIds -> Seq(Events)]
<1>1. payments \in Seq(Payment) /\ NewPayment(o, k, p) \in Payment
  BY DEF TypeOK, NewPayment, Payment
<1>2. payments' = Append(payments, NewPayment(o, k, p))
  BY DEF RecordPayment
<1>3. chain' \in [OrderIds -> Seq(Events)]
  <2>1. chain[o] \in Seq(Events) /\ "payment.initiated" \in Events
    BY DEF TypeOK, Events
  <2>2. Append(chain[o], "payment.initiated") \in Seq(Events)
    BY <2>1
  <2> QED BY <2>2 DEF RecordPayment, TypeOK
<1>4. orders' = [orders EXCEPT ![o] = "payment_pending"]
  BY DEF RecordPayment
<1> HIDE DEF NewPayment
<1> QED BY <1>1, <1>2, <1>3, <1>4

(***************************************************************************)
(* A captured webhook confirms the matched payment and its order.          *)
(***************************************************************************)
LEMMA CapturedEffect ==
  ASSUME TypeOK, NEW m \in Webhook, WebhookCaptured(m)
  PROVE  LET i == Matched(m)
             o == payments[i].order
         IN /\ i \in DOMAIN payments /\ o \in OrderIds
            /\ payments' \in Seq(Payment)
            /\ DOMAIN payments' = DOMAIN payments
            /\ \A j \in DOMAIN payments \ {i} : payments'[j] = payments[j]
            /\ payments'[i].order = o /\ payments'[i].key = payments[i].key
            /\ payments'[i].provider_order = payments[i].provider_order
            /\ orders' = [orders EXCEPT ![o] = "paid"]
            /\ chain' \in [OrderIds -> Seq(Events)]
<1> DEFINE i == Matched(m)
           o == payments[i].order
           confirmed == [payments[i] EXCEPT !.provider_confirmed_state = "captured",
                                            !.local_state = "completed", !.is_paid = TRUE]
<1>1. payments \in Seq(Payment) /\ i \in DOMAIN payments
  BY MatchedIsMatch DEF TypeOK, WebhookCaptured
<1>2. payments[i] \in Payment
  BY <1>1
<1>3. confirmed \in Payment /\ o \in OrderIds
  BY <1>2 DEF Payment
<1>4. payments' = [payments EXCEPT ![i] = confirmed]
  BY <1>1, <1>2 DEF WebhookCaptured, Payment
<1>5. /\ confirmed.order = o /\ confirmed.key = payments[i].key
      /\ confirmed.provider_order = payments[i].provider_order
  BY <1>2 DEF Payment
<1>6. orders' = [orders EXCEPT ![o] = "paid"]
  BY DEF WebhookCaptured
<1>7. chain' \in [OrderIds -> Seq(Events)]
  <2>1. chain[o] \in Seq(Events) /\ "payment.provider_confirmed" \in Events
    BY <1>3 DEF TypeOK, Events
  <2>2. Append(chain[o], "payment.provider_confirmed") \in Seq(Events)
    BY <2>1
  <2> QED BY <2>2 DEF WebhookCaptured, TypeOK
<1> HIDE DEF i, o, confirmed
<1>8. payments' \in Seq(Payment) /\ DOMAIN payments' = DOMAIN payments
  BY <1>1, <1>3, <1>4, ExceptSeq
<1> QED BY <1>1, <1>3, <1>4, <1>5, <1>6, <1>7, <1>8 DEF i, o

(***************************************************************************)
(* A failed webhook marks the matched payment as failed.                   *)
(***************************************************************************)
LEMMA FailedEffect ==
  ASSUME TypeOK, NEW m \in Webhook, WebhookFailed(m)
  PROVE  /\ payments' \in Seq(Payment)
         /\ DOMAIN payments' = DOMAIN payments
         /\ \A j \in DOMAIN payments : /\ payments'[j].order = payments[j].order
                                       /\ payments'[j].key = payments[j].key
                                       /\ payments'[j].provider_order = payments[j].provider_order
                                       /\ payments'[j].is_paid => payments[j].is_paid
<1> DEFINE i == Matched(m)
           refused == [payments[i] EXCEPT !.provider_confirmed_state = "failed",
                                          !.local_state = "failed", !.is_paid = FALSE]
<1>1. payments \in Seq(Payment) /\ i \in DOMAIN payments
  BY MatchedIsMatch DEF TypeOK, WebhookFailed
<1>2. payments[i] \in Payment
  BY <1>1
<1>3. refused \in Payment /\ refused.order = payments[i].order /\ refused.key = payments[i].key
      /\ refused.provider_order = payments[i].provider_order /\ refused.is_paid = FALSE
  BY <1>2 DEF Payment
<1>4. payments' = [payments EXCEPT ![i] = refused]
  BY <1>1, <1>2 DEF WebhookFailed, Payment
<1> HIDE DEF i, refused
<1>5. payments' \in Seq(Payment) /\ DOMAIN payments' = DOMAIN payments
  BY <1>1, <1>3, <1>4, ExceptSeq
<1> QED BY <1>1, <1>3, <1>4, <1>5

(***************************************************************************)
(* TypeOK is preserved by every step.                                      *)
(***************************************************************************)
LEMMA TypeStep == TypeOK /\ [Next]_vars => TypeOK'
<1> SUFFICES ASSUME TypeOK, [Next]_vars PROVE TypeOK'
  OBVIOUS
<1>1. ASSUME NEW o \in OrderIds, CreateOrder(o) PROVE TypeOK'
  <2>1. << "order.created" >> \in Seq(Events)
    BY DEF Events
  <2> QED BY <1>1, <2>1 DEF CreateOrder, TypeOK, provider
<1>2. ASSUME NEW o \in OrderIds, NEW k \in Keys, NEW p \in ProviderIds \cup {NoId},
             RecordPayment(o, k, p)
      PROVE  /\ payments' \in Seq(Payment) /\ chain' \in [OrderIds -> Seq(Events)]
             /\ orders' \in [OrderIds -> {"absent", "created", "payment_pending", "paid"}]
  BY <1>2, RecordEffect DEF TypeOK
<1>3. ASSUME NEW o \in OrderIds, NEW k \in Keys, InitiateLocally(o, k) PROVE TypeOK'
  BY <1>2, <1>3 DEF InitiateLocally, TypeOK, provider
<1>4. ASSUME NEW h \in Handlers, NEW o \in OrderIds, NEW k \in Keys, InitiateAtProvider(h, o, k)
      PROVE  TypeOK'
  BY <1>4 DEF InitiateAtProvider, TypeOK, provider
<1>5. ASSUME NEW h \in Handlers, inflight[h].busy
      PROVE  inflight[h].order \in OrderIds /\ inflight[h].key \in Keys
  <2>1. inflight[h] # Idle
    BY <1>5 DEF Idle
  <2>2. inflight[h] \in [busy : {TRUE}, order : OrderIds, key : Keys]
    BY <2>1 DEF TypeOK
  <2> QED BY <2>2
<1>6. ASSUME NEW h \in Handlers, NEW p \in ProviderIds, ProviderAccepted(h, p) PROVE TypeOK'
  BY <1>2, <1>5, <1>6 DEF ProviderAccepted, TypeOK
<1>7. ASSUME NEW h \in Handlers, ProviderUnavailable(h) PROVE TypeOK'
  BY <1>2, <1>5, <1>7 DEF ProviderUnavailable, TypeOK, provider
<1>8. ASSUME NEW r \in Refs, NEW s \in {"captured", "failed", "authorized"}, Attempt(r, s)
      PROVE  TypeOK'
  <2>1. [ref |-> r, status |-> s] \in Webhook
    BY DEF Webhook
  <2>2. captured' \subseteq Refs /\ sent' \subseteq Webhook /\ sent \subseteq sent'
    <3> USE <1>8, <2>1 DEF Attempt, TypeOK
    <3>1. CASE s = "captured"
      BY <3>1
    <3>2. CASE s # "captured"
      BY <3>2
    <3> QED BY <3>1, <3>2
  <2> QED BY <1>8, <2>2 DEF Attempt, TypeOK, process
<1>9. ASSUME NEW m \in Webhook, Deliver(m) PROVE TypeOK'
  <2>1. acked' \subseteq sent
    BY <1>9 DEF Deliver, WebhookUnmatched, WebhookCaptured, WebhookFailed, WebhookIgnored,
                Arrives, TypeOK
  <2>2. CASE WebhookUnmatched(m) \/ WebhookIgnored(m)
    BY <2>1, <2>2 DEF WebhookUnmatched, WebhookIgnored, process, provider, TypeOK
  <2>3. CASE WebhookCaptured(m)
    <3>1. orders' \in [OrderIds -> {"absent", "created", "payment_pending", "paid"}]
      BY <2>3, CapturedEffect DEF TypeOK
    <3> QED BY <2>1, <2>3, <3>1, CapturedEffect DEF WebhookCaptured, provider, TypeOK
  <2>4. CASE WebhookFailed(m)
    BY <2>1, <2>4, FailedEffect DEF WebhookFailed, provider, TypeOK
  <2> QED BY <1>9, <2>2, <2>3, <2>4 DEF Deliver
<1>10. CASE Restart
  BY <1>10, BoundAssumption DEF Restart, TypeOK, provider
<1>11. CASE UNCHANGED vars
  BY <1>11 DEF vars, process, provider, TypeOK
<1> QED
  BY <1>1, <1>3, <1>4, <1>6, <1>7, <1>8, <1>9, <1>10, <1>11 DEF Next

(***************************************************************************)
(* Type correctness of orders, payments and webhooks, in every mode.       *)
(***************************************************************************)
THEOREM TypeCorrect == Spec => []TypeOK
<1>1. Init => TypeOK
  BY BoundAssumption, ModeAssumption DEF Init, TypeOK
<1> QED BY <1>1, TypeStep, PTL DEF Spec

-----------------------------------------------------------------------------
(* Paid means captured, where every payment the account takes is linked to *)
(* an order.                                                               *)

\* A capture of a payment that names its order, or the provider's order id.
Backed(i) ==
  payments[i].order \in captured \/ payments[i].provider_order \in captured \ {NoId}

\* Nothing unlinked is captured, webhooks tell of captures that happened, and
\* what is marked as paid rests on one.
PaidInv ==
  /\ NoId \notin captured
  /\ \A m \in sent : m.status = "captured" => m.ref \in captured
  /\ \A i \in DOMAIN payments : payments[i].is_paid => Backed(i)
  /\ \A o \in OrderIds : orders[o] = "paid" => \E i \in PaymentsOf(o) : Backed(i)

(***************************************************************************)
(* Recording an open payment leaves what is paid as it was.                *)
(***************************************************************************)
LEMMA RecordKeepsPaid ==
  ASSUME TypeOK, PaidInv, NEW o \in OrderIds, NEW k \in Keys, NEW p \in ProviderIds \cup {NoId},
         RecordPayment(o, k, p), UNCHANGED << captured, sent >>
  PROVE  PaidInv'
<1> DEFINE new == Len(payments) + 1
<1>1. /\ DOMAIN payments' = DOMAIN payments \cup {new}
      /\ \A i \in DOMAIN payments : payments'[i] = payments[i]
  BY RecordEffect
<1>2. payments'[new].is_paid = FALSE
  <2>1. payments'[new] = NewPayment(o, k, p)
    BY RecordEffect
  <2> QED BY <2>1 DEF NewPayment
<1>3. \A i \in DOMAIN payments' : payments'[i].is_paid => Backed(i)'
  <2> HIDE DEF new
  <2> QED BY <1>1, <1>2 DEF PaidInv, Backed
<1>4. ASSUME NEW x \in OrderIds, orders'[x] = "paid"
      PROVE  \E i \in PaymentsOf(x)' : Backed(i)'
  <2>1. orders[x] = "paid"
    BY <1>4, RecordEffect DEF TypeOK
  <2>2. PICK i \in PaymentsOf(x) : Backed(i)
    BY <2>1 DEF PaidInv
  <2>3. i \in PaymentsOf(x)' /\ Backed(i)'
    BY <1>1, <2>2 DEF PaymentsOf, Backed
  <2> QED BY <2>3
<1> QED BY <1>3, <1>4 DEF PaidInv

(***************************************************************************)
(* A captured webhook marks a payment and an order that were captured: a   *)
(* payment it matches by order id is backed by the order, one it matches   *)
(* by provider order id by that, and null matches neither.                 *)
(***************************************************************************)
LEMMA CapturedKeepsPaid ==
  ASSUME TypeOK, PaidInv, NEW m \in Webhook, WebhookCaptured(m)
  PROVE  PaidInv'
<1> DEFINE i == Matched(m)
           o == payments[i].order
<1>1. /\ i \in DOMAIN payments /\ o \in OrderIds
      /\ DOMAIN payments' = DOMAIN payments
      /\ \A j \in DOMAIN payments \ {i} : payments'[j] = payments[j]
      /\ payments'[i].order = o /\ payments'[i].provider_order = payments[i].provider_order
      /\ orders' = [orders EXCEPT ![o] = "paid"]
  BY CapturedEffect
<1>2. UNCHANGED << captured, sent >>
  BY DEF WebhookCaptured, provider
<1>3. m.ref \in captured \ {NoId}
  BY DEF WebhookCaptured, Arrives, PaidInv
<1>4. o = m.ref \/ payments[i].provider_order = m.ref
  BY MatchedIsMatch DEF TypeOK, WebhookCaptured
<1> HIDE DEF i
<1>5. Backed(i)
  BY <1>3, <1>4 DEF Backed
<1>6. \A j \in DOMAIN payments : Backed(j)' <=> Backed(j)
  BY <1>1, <1>2 DEF Backed
<1>7. \A j \in DOMAIN payments' : payments'[j].is_paid => Backed(j)'
  BY <1>1, <1>5, <1>6 DEF PaidInv
<1>8. \A x \in OrderIds : PaymentsOf(x)' = PaymentsOf(x)
  BY <1>1 DEF PaymentsOf
<1>9. ASSUME NEW x \in OrderIds, orders'[x] = "paid"
      PROVE  \E j \in PaymentsOf(x)' : Backed(j)'
  <2>1. CASE x = o
    BY <1>1, <1>5, <1>6, <1>8, <2>1 DEF PaymentsOf
  <2>2. CASE x # o
    <3>1. orders[x] = "paid"
      BY <1>1, <1>9, <2>2 DEF TypeOK
    <3>2. PICK j \in PaymentsOf(x) : Backed(j)
      BY <3>1 DEF PaidInv
    <3> QED BY <1>6, <1>8, <3>2 DEF PaymentsOf
  <2> QED BY <2>1, <2>2
<1> QED BY <1>2, <1>7, <1>9 DEF PaidInv

(***************************************************************************)
(* The invariant is preserved where no payment is unlinked.                *)
(***************************************************************************)
LEMMA PaidStep ==
  ASSUME ~ UnlinkedPayments
  PROVE  TypeOK /\ PaidInv /\ [Next]_vars => PaidInv'
<1> SUFFICES ASSUME TypeOK, PaidInv, [Next]_vars PROVE PaidInv'
  OBVIOUS
<1>1. ASSUME NEW o \in OrderIds, CreateOrder(o) PROVE PaidInv'
  <2>1. \A x \in OrderIds : orders'[x] = "paid" => orders[x] = "paid"
    BY <1>1 DEF CreateOrder, TypeOK
  <2> QED BY <1>1, <2>1 DEF CreateOrder, PaidInv, PaymentsOf, Backed, provider
<1>2. ASSUME NEW h \in Handlers, inflight[h].busy
      PROVE  inflight[h].order \in OrderIds /\ inflight[h].key \in Keys
  <2>1. inflight[h] # Idle
    BY <1>2 DEF Idle
  <2>2. inflight[h] \in [busy : {TRUE}, order : OrderIds, key : Keys]
    BY <2>1 DEF TypeOK
  <2> QED BY <2>2
<1>3. ASSUME NEW o \in OrderIds, NEW k \in Keys, InitiateLocally(o, k) PROVE PaidInv'
  BY <1>3, RecordKeepsPaid DEF InitiateLocally, provider
<1>4. ASSUME NEW h \in Handlers, NEW o \in OrderIds, NEW k \in Keys, InitiateAtProvider(h, o, k)
      PROVE  PaidInv'
  BY <1>4 DEF InitiateAtProvider, PaidInv, PaymentsOf, Backed, provider
<1>5. ASSUME NEW h \in Handlers, NEW p \in ProviderIds, ProviderAccepted(h, p) PROVE PaidInv'
  BY <1>2, <1>5, RecordKeepsPaid DEF ProviderAccepted
<1>6. ASSUME NEW h \in Handlers, ProviderUnavailable(h) PROVE PaidInv'
  BY <1>2, <1>6, RecordKeepsPaid DEF ProviderUnavailable, provider
<1>7. ASSUME NEW r \in Refs, NEW s \in {"captured", "failed", "authorized"}, Attempt(r, s)
      PROVE  PaidInv'
  <2>1. r # NoId /\ NoId \notin captured
    BY <1>7, IdAssumption DEF Attempt, Payable, TypeOK, PaidInv
  <2>2. /\ captured \subseteq captured' /\ NoId \notin captured'
        /\ s = "captured" => r \in captured'
    <3>1. CASE s = "captured"
      BY <1>7, <2>1, <3>1 DEF Attempt
    <3>2. CASE s # "captured"
      BY <1>7, <2>1, <3>2 DEF Attempt
    <3> QED BY <3>1, <3>2
  <2>3. ASSUME NEW m \in sent', m.status = "captured" PROVE m.ref \in captured'
    BY <1>7, <2>2, <2>3 DEF Attempt, PaidInv
  <2>4. UNCHANGED << orders, payments >>
    BY <1>7 DEF Attempt, process
  <2>5. \A i \in DOMAIN payments : Backed(i) => Backed(i)'
    BY <2>2, <2>4 DEF Backed
  <2> QED BY <2>2, <2>3, <2>4, <2>5 DEF PaidInv, PaymentsOf
<1>8. ASSUME NEW m \in Webhook, Deliver(m) PROVE PaidInv'
  <2>1. CASE WebhookUnmatched(m) \/ WebhookIgnored(m)
    BY <2>1 DEF WebhookUnmatched, WebhookIgnored, PaidInv, PaymentsOf, Backed, process, provider
  <2>2. CASE WebhookFailed(m)
    <3>1. UNCHANGED << orders, captured, sent >>
      BY <2>2 DEF WebhookFailed, provider
    <3>2. \A i \in DOMAIN payments : Backed(i)' <=> Backed(i)
      BY <2>2, <3>1, FailedEffect DEF Backed
    <3>3. \A o \in OrderIds : PaymentsOf(o)' = PaymentsOf(o)
      BY <2>2, FailedEffect DEF PaymentsOf
    <3>4. \A i \in DOMAIN payments' : payments'[i].is_paid => Backed(i)'
      BY <2>2, <3>2, FailedEffect DEF PaidInv
    <3> QED BY <3>1, <3>2, <3>3, <3>4 DEF PaidInv, PaymentsOf
  <2> QED BY <1>8, <2>1, <2>2, CapturedKeepsPaid DEF Deliver
<1>9. CASE Restart
  BY <1>9 DEF Restart, PaidInv, provider
<1>10. CASE UNCHANGED vars
  BY <1>10 DEF vars, process, provider, PaidInv, PaymentsOf, Backed
<1> QED
  BY <1>1, <1>3, <1>4, <1>5, <1>6, <1>7, <1>8, <1>9, <1>10 DEF Next

(***************************************************************************)
(* Nothing counts as paid without a capture by the provider: with keys or  *)
(* without, over every overlap of requests, webhooks and restarts, as long *)
(* as the provider's account takes no payment that belongs to no order.    *)
(***************************************************************************)
THEOREM PaidIsCaptured ==
  ASSUME ~ UnlinkedPayments
  PROVE  Spec => []PaidMeansCaptured
<1>1. Init => TypeOK /\ PaidInv
  BY BoundAssumption, ModeAssumption DEF Init, TypeOK, PaidInv
<1>2. TypeOK /\ PaidInv /\ [Next]_vars => TypeOK' /\ PaidInv'
  BY TypeStep, PaidStep
<1>3. TypeOK /\ PaidInv => PaidMeansCaptured
  <2> SUFFICES ASSUME TypeOK, PaidInv, NEW o \in OrderIds,
                      orders[o] = "paid" \/ \E i \in PaymentsOf(o) : payments[i].is_paid
               PROVE  CapturedFor(o)
    BY DEF PaidMeansCaptured
  <2>1. PICK i \in PaymentsOf(o) : Backed(i)
    BY DEF PaidInv, PaymentsOf
  <2> QED BY <2>1 DEF Backed, CapturedFor, PaymentsOf
<1> QED BY <1>1, <1>2, <1>3, PTL DEF Spec

-----------------------------------------------------------------------------
(* Without provider keys no request suspends, and the checks still hold    *)
(* when the writes happen.                                                 *)

\* No request is suspended, stored orders were issued, and an order with a
\* payment is past "created" until the process restarts.
AtomicInv ==
  /\ \A h \in Handlers : inflight[h] = Idle
  /\ \A o \in OrderIds : orders[o] # "absent" => o \in issued
  /\ \A i \in DOMAIN payments : orders[payments[i].order] \in {"payment_pending", "paid"}
  /\ PaymentKeyUnique

LocalInv == ~ keysConfigured => AtomicInv

(***************************************************************************)
(* The two rows of ORDER_SM the handlers use.                              *)
(***************************************************************************)
LEMMA TableRows ==
  IsStep(ORDER_SM, "created", "payment_pending") /\ IsStep(ORDER_SM, "payment_pending", "paid")
<1>1. /\ << "created", "payment_initiated", "payment_pending" >> \in ORDER_SM.transitions
      /\ << "payment_pending", "payment_confirmed", "paid" >> \in ORDER_SM.transitions
      /\ "created" \notin ORDER_SM.terminal /\ "payment_pending" \notin ORDER_SM.terminal
  BY DEF ORDER_SM
<1>2. ASSUME NEW row, row = << "created", "payment_initiated", "payment_pending" >>
      PROVE  row[1] = "created" /\ row[3] = "payment_pending"
  BY <1>2
<1>3. ASSUME NEW row, row = << "payment_pending", "payment_confirmed", "paid" >>
      PROVE  row[1] = "payment_pending" /\ row[3] = "paid"
  BY <1>3
<1> QED BY <1>1, <1>2, <1>3 DEF IsStep

(***************************************************************************)
(* No step configures the provider's keys, a restart neither.              *)
(***************************************************************************)
LEMMA ModeStays == [Next]_vars => UNCHANGED keysConfigured
BY DEF Next, CreateOrder, InitiateLocally, InitiateAtProvider, ProviderAccepted,
       ProviderUnavailable, Attempt, Deliver, WebhookUnmatched, WebhookCaptured,
       WebhookFailed, WebhookIgnored, Restart, vars, provider

(***************************************************************************)
(* Every atomic step preserves the invariant and follows the table.        *)
(***************************************************************************)
LEMMA AtomicStep ==
  ASSUME TypeOK, AtomicInv, ~ keysConfigured, [Next]_vars
  PROVE  AtomicInv' /\ \A o \in OrderIds : AlongTable(o)
<1>1. ASSUME NEW o \in OrderIds, CreateOrder(o)
      PROVE  AtomicInv' /\ \A x \in OrderIds : AlongTable(x)
  <2>1. orders[o] = "absent" /\ orders'[o] = "created"
    BY <1>1 DEF CreateOrder, AtomicInv, TypeOK
  <2>2. /\ \A x \in OrderIds \ {o} : orders'[x] = orders[x]
        /\ issued' = issued \cup {o} /\ UNCHANGED << payments, inflight >>
    BY <1>1 DEF CreateOrder, TypeOK
  <2>3. \A i \in DOMAIN payments : payments[i].order \in OrderIds \ {o}
    <3>1. \A i \in DOMAIN payments : payments[i] \in Payment
      BY DEF TypeOK
    <3> QED BY <2>1, <3>1 DEF AtomicInv, Payment
  <2>4. AtomicInv'
    BY <2>1, <2>2, <2>3 DEF AtomicInv, PaymentKeyUnique
  <2> QED BY <2>1, <2>2, <2>4 DEF AlongTable
<1>2. ASSUME NEW o \in OrderIds, NEW k \in Keys, InitiateLocally(o, k)
      PROVE  AtomicInv' /\ \A x \in OrderIds : AlongTable(x)
  <2> DEFINE new == Len(payments) + 1
  <2>1. /\ orders[o] \in {"created", "payment_pending"}
        /\ \A i \in DOMAIN payments : payments[i].key # k
        /\ UNCHANGED << inflight, issued >>
    BY <1>2 DEF InitiateLocally, MayInitiate
  <2>2. /\ DOMAIN payments' = DOMAIN payments \cup {new} /\ new \notin DOMAIN payments
        /\ payments'[new] = NewPayment(o, k, NoId)
        /\ \A i \in DOMAIN payments : payments'[i] = payments[i]
        /\ orders' = [orders EXCEPT ![o] = "payment_pending"]
    BY <1>2, RecordEffect DEF InitiateLocally
  <2>3. payments'[new].order = o /\ payments'[new].key = k
    BY <2>2 DEF NewPayment
  <2> HIDE DEF new
  <2>4. orders'[o] = "payment_pending" /\ \A x \in OrderIds \ {o} : orders'[x] = orders[x]
    BY <2>2 DEF TypeOK
  <2>5. \A i \in DOMAIN payments : payments[i].order \in OrderIds
    <3>1. \A i \in DOMAIN payments : payments[i] \in Payment
      BY DEF TypeOK
    <3> QED BY <3>1 DEF Payment
  <2>6. PaymentKeyUnique'
    BY <2>1, <2>2, <2>3 DEF AtomicInv, PaymentKeyUnique
  <2>7. \A i \in DOMAIN payments' : orders'[payments'[i].order] \in {"payment_pending", "paid"}
    BY <2>2, <2>3, <2>4, <2>5 DEF AtomicInv
  <2>8. AtomicInv'
    BY <2>1, <2>4, <2>6, <2>7 DEF AtomicInv
  <2> QED BY <2>1, <2>4, <2>8, TableRows DEF AlongTable
<1>3. ASSUME NEW m \in Webhook, WebhookCaptured(m)
      PROVE  AtomicInv' /\ \A x \in OrderIds : AlongTable(x)
  <2> DEFINE i == Matched(m)
             o == payments[i].order
  <2>1. /\ i \in DOMAIN payments /\ o \in OrderIds
        /\ DOMAIN payments' = DOMAIN payments
        /\ \A j \in DOMAIN payments \ {i} : payments'[j] = payments[j]
        /\ payments'[i].order = o /\ payments'[i].key = payments[i].key
        /\ orders' = [orders EXCEPT ![o] = "paid"]
    BY <1>3, CapturedEffect
  <2>2. UNCHANGED << inflight, issued >>
    BY <1>3 DEF WebhookCaptured
  <2> HIDE DEF i
  <2>3. /\ orders[o] \in {"payment_pending", "paid"} /\ orders'[o] = "paid"
        /\ \A x \in OrderIds \ {o} : orders'[x] = orders[x]
    BY <2>1 DEF AtomicInv, TypeOK
  <2>4. \A j \in DOMAIN payments : payments'[j].order = payments[j].order
                                   /\ payments'[j].key = payments[j].key
    BY <2>1
  <2>5. \A j \in DOMAIN payments : payments[j].order \in OrderIds
    <3>1. \A j \in DOMAIN payments : payments[j] \in Payment
      BY DEF TypeOK
    <3> QED BY <3>1 DEF Payment
  <2>6. PaymentKeyUnique'
    BY <2>1, <2>4 DEF AtomicInv, PaymentKeyUnique
  <2>7. \A j \in DOMAIN payments' : orders'[payments'[j].order] \in {"payment_pending", "paid"}
    BY <2>1, <2>3, <2>4, <2>5 DEF AtomicInv
  <2>8. AtomicInv'
    BY <2>1, <2>2, <2>3, <2>6, <2>7 DEF AtomicInv
  <2> QED BY <2>3, <2>8, TableRows DEF AlongTable
<1>4. ASSUME NEW m \in Webhook, WebhookFailed(m)
      PROVE  AtomicInv' /\ \A x \in OrderIds : AlongTable(x)
  <2>1. UNCHANGED << orders, inflight, issued >>
    BY <1>4 DEF WebhookFailed
  <2>2. /\ DOMAIN payments' = DOMAIN payments
        /\ \A j \in DOMAIN payments : payments'[j].order = payments[j].order
                                      /\ payments'[j].key = payments[j].key
    BY <1>4, FailedEffect
  <2> QED BY <2>1, <2>2 DEF AtomicInv, PaymentKeyUnique, AlongTable
<1>5. CASE Restart
  BY <1>5 DEF Restart, AtomicInv, PaymentKeyUnique, AlongTable
<1>6. ASSUME UNCHANGED << orders, payments, inflight, issued >>
      PROVE  AtomicInv' /\ \A x \in OrderIds : AlongTable(x)
  BY <1>6 DEF AtomicInv, PaymentKeyUnique, AlongTable
<1>7. ASSUME NEW m \in Webhook, WebhookUnmatched(m) \/ WebhookIgnored(m)
      PROVE  UNCHANGED << orders, payments, inflight, issued >>
  BY <1>7 DEF WebhookUnmatched, WebhookIgnored, process
<1>8. ASSUME NEW r \in Refs, NEW s \in {"captured", "failed", "authorized"}, Attempt(r, s)
      PROVE  UNCHANGED << orders, payments, inflight, issued >>
  BY <1>8 DEF Attempt, process
<1>9. \A h \in Handlers : ~ inflight[h].busy
  BY DEF AtomicInv, Idle
<1>10. ASSUME NEW h \in Handlers PROVE /\ \A p \in ProviderIds : ~ ProviderAccepted(h, p)
                                       /\ ~ ProviderUnavailable(h)
                                       /\ \A o \in OrderIds, k \in Keys : ~ InitiateAtProvider(h, o, k)
  BY <1>9 DEF ProviderAccepted, ProviderUnavailable, InitiateAtProvider
<1>11. CASE UNCHANGED vars
  BY <1>6, <1>11 DEF vars, process
<1> QED
  BY <1>1, <1>2, <1>3, <1>4, <1>5, <1>6, <1>7, <1>8, <1>10, <1>11 DEF Next, Deliver

(***************************************************************************)
(* Without provider keys a key stands for one payment and every order      *)
(* follows the table: README invariant 7 and ORDER_SM, kept by atomicity   *)
(* alone.                                                                  *)
(***************************************************************************)
THEOREM AtomicMode == Spec => []LocalKeysUnique /\ LocalOrdersFollowSM
<1>1. Init => TypeOK /\ LocalInv
  BY BoundAssumption, ModeAssumption DEF Init, TypeOK, LocalInv, AtomicInv, PaymentKeyUnique
<1>2. TypeOK /\ LocalInv /\ [Next]_vars
        => /\ TypeOK' /\ LocalInv'
           /\ ~ keysConfigured => \A o \in OrderIds : AlongTable(o)
  BY TypeStep, AtomicStep, ModeStays DEF LocalInv
<1>3. LocalInv => LocalKeysUnique
  BY DEF LocalInv, AtomicInv, LocalKeysUnique
<1>4. TypeOK /\ LocalInv /\ [Next]_vars
        => [~ keysConfigured => \A o \in OrderIds : AlongTable(o)]_vars
  BY <1>2
<1> QED BY <1>1, <1>2, <1>3, <1>4, PTL DEF Spec, LocalOrdersFollowSM

(***************************************************************************)
(* Without provider keys an idempotency key stands for one payment: the    *)
(* lookup and the insertion are not separated by an await (orders.py:221). *)
(***************************************************************************)
THEOREM KeysAreUnique == Spec => []LocalKeysUnique
BY AtomicMode, PTL

-----------------------------------------------------------------------------
(* One request at a time.                                                  *)

\* A suspended request's key has no payment yet.
AloneInv ==
  /\ PaymentKeyUnique
  /\ ~ keysConfigured => \A h \in Handlers : inflight[h] = Idle
  /\ \A h \in Handlers : inflight[h].busy =>
       /\ inflight[h].order \in OrderIds /\ inflight[h].key \in Keys
       /\ \A i \in DOMAIN payments : payments[i].key # inflight[h].key

(***************************************************************************)
(* A payment with a key that no payment has yet leaves keys unique.        *)
(***************************************************************************)
LEMMA NewKeyStaysUnique ==
  ASSUME TypeOK, PaymentKeyUnique, NEW o \in OrderIds, NEW k \in Keys,
         NEW p \in ProviderIds \cup {NoId}, RecordPayment(o, k, p),
         \A i \in DOMAIN payments : payments[i].key # k
  PROVE  PaymentKeyUnique'
<1>1. PICK new : new = Len(payments) + 1
  OBVIOUS
<1>2. /\ DOMAIN payments' = DOMAIN payments \cup {new}
      /\ payments'[new].key = k
      /\ \A i \in DOMAIN payments : payments'[i] = payments[i]
  <2>1. NewPayment(o, k, p).key = k
    BY DEF NewPayment
  <2> QED BY <1>1, <2>1, RecordEffect
<1> QED BY <1>2 DEF PaymentKeyUnique

(***************************************************************************)
(* With one request at a time every step leaves keys unique.               *)
(***************************************************************************)
LEMMA AloneStep ==
  ASSUME \A g, h \in Handlers : g = h
  PROVE  TypeOK /\ AloneInv /\ [Next]_vars => AloneInv'
<1> SUFFICES ASSUME TypeOK, AloneInv, [Next]_vars PROVE AloneInv'
  OBVIOUS
<1>0. UNCHANGED keysConfigured
  BY ModeStays
<1> USE <1>0
<1>1. ASSUME UNCHANGED inflight, payments' = payments \/ payments' = << >> PROVE AloneInv'
  BY <1>1 DEF AloneInv, PaymentKeyUnique
<1>2. ASSUME NEW o \in OrderIds, NEW k \in Keys, InitiateLocally(o, k) PROVE AloneInv'
  <2>1. PaymentKeyUnique'
    BY <1>2, NewKeyStaysUnique DEF AloneInv, InitiateLocally, MayInitiate
  <2>2. \A h \in Handlers : ~ inflight'[h].busy /\ inflight'[h] = Idle
    BY <1>2 DEF AloneInv, InitiateLocally, Idle
  <2> QED BY <2>1, <2>2 DEF AloneInv
<1>3. ASSUME NEW h \in Handlers, NEW o \in OrderIds, NEW k \in Keys, InitiateAtProvider(h, o, k)
      PROVE  AloneInv'
  <2>1. /\ keysConfigured /\ UNCHANGED payments
        /\ inflight'[h] = [busy |-> TRUE, order |-> o, key |-> k]
        /\ \A i \in DOMAIN payments : payments[i].key # k
    BY <1>3 DEF InitiateAtProvider, MayInitiate, TypeOK
  <2>2. \A g \in Handlers : g = h
    OBVIOUS
  <2>3. keysConfigured' /\ PaymentKeyUnique'
    BY <2>1 DEF AloneInv, PaymentKeyUnique
  <2>4. \A g \in Handlers : /\ inflight'[g].order \in OrderIds /\ inflight'[g].key \in Keys
                            /\ \A i \in DOMAIN payments' : payments'[i].key # inflight'[g].key
    BY <2>1, <2>2
  <2> QED BY <2>3, <2>4 DEF AloneInv
<1>4. ASSUME NEW h \in Handlers, NEW p \in ProviderIds \cup {NoId}, inflight[h].busy,
             RecordPayment(inflight[h].order, inflight[h].key, p),
             inflight' = [inflight EXCEPT ![h] = Idle]
      PROVE  AloneInv'
  <2>1. PaymentKeyUnique'
    BY <1>4, NewKeyStaysUnique DEF AloneInv
  <2>2. \A g \in Handlers : inflight'[g] = Idle /\ ~ inflight'[g].busy
    BY <1>4 DEF TypeOK, Idle
  <2> QED BY <2>1, <2>2 DEF AloneInv
<1>5. ASSUME NEW m \in Webhook, Deliver(m) PROVE AloneInv'
  <2>1. /\ DOMAIN payments' = DOMAIN payments /\ UNCHANGED inflight
        /\ \A i \in DOMAIN payments : payments'[i].key = payments[i].key
    <3>1. CASE WebhookCaptured(m)
      BY <3>1, CapturedEffect DEF WebhookCaptured
    <3>2. CASE WebhookFailed(m)
      BY <3>2, FailedEffect DEF WebhookFailed
    <3>3. CASE WebhookUnmatched(m) \/ WebhookIgnored(m)
      BY <3>3 DEF WebhookUnmatched, WebhookIgnored, process
    <3> QED BY <1>5, <3>1, <3>2, <3>3 DEF Deliver
  <2> QED BY <2>1 DEF AloneInv, PaymentKeyUnique
<1>6. CASE Restart
  <2>1. payments' = << >> /\ \A h \in Handlers : inflight'[h] = Idle /\ ~ inflight'[h].busy
    BY <1>6 DEF Restart, Idle
  <2> QED BY <2>1 DEF AloneInv, PaymentKeyUnique
<1>7. ASSUME NEW o \in OrderIds, CreateOrder(o) PROVE AloneInv'
  BY <1>1, <1>7 DEF CreateOrder
<1>8. ASSUME NEW r \in Refs, NEW s \in {"captured", "failed", "authorized"}, Attempt(r, s)
      PROVE  AloneInv'
  BY <1>1, <1>8 DEF Attempt, process
<1>9. CASE UNCHANGED vars
  BY <1>1, <1>9 DEF vars, process
<1>10. ASSUME NEW h \in Handlers, NEW p \in ProviderIds, ProviderAccepted(h, p) PROVE AloneInv'
  BY <1>4, <1>10 DEF ProviderAccepted
<1>11. ASSUME NEW h \in Handlers, ProviderUnavailable(h) PROVE AloneInv'
  BY <1>4, <1>11 DEF ProviderUnavailable
<1> QED BY <1>2, <1>3, <1>5, <1>6, <1>7, <1>8, <1>9, <1>10, <1>11 DEF Next

(***************************************************************************)
(* Overlap alone lets one key make two payments: where initiate_payment is *)
(* handled one request at a time, a key stands for one payment with and    *)
(* without provider keys, whatever the provider answers.                   *)
(***************************************************************************)
THEOREM KeysAreUniqueAlone ==
  ASSUME \A g, h \in Handlers : g = h
  PROVE  Spec => []PaymentKeyUnique
<1>1. Init => TypeOK /\ AloneInv
  BY BoundAssumption, ModeAssumption DEF Init, TypeOK, AloneInv, PaymentKeyUnique, Idle
<1>2. TypeOK /\ AloneInv /\ [Next]_vars => TypeOK' /\ AloneInv'
  BY TypeStep, AloneStep
<1>3. AloneInv => PaymentKeyUnique
  BY DEF AloneInv
<1> QED BY <1>1, <1>2, <1>3, PTL DEF Spec

-----------------------------------------------------------------------------
(* The evidence of an order, in every mode.                                *)

\* Where an event stands in a chain, and what makes a chain complete for a
\* set of payments and a status.
Where(s, e) == {n \in DOMAIN s : s[n] = e}

Complete(s, P, status) ==
  /\ Where(s, "order.created") = {1}
  /\ Cardinality(Where(s, "payment.initiated")) = Cardinality(P)
  /\ status = "paid" => Where(s, "payment.provider_confirmed") # {}
  /\ \A n \in Where(s, "payment.provider_confirmed") :
       \E l \in Where(s, "payment.initiated") : l < n

\* A stored order was issued and has its evidence; payments, also those that
\* a suspended request is about to record, belong to stored orders.
EvidenceInv ==
  /\ \A o \in OrderIds : orders[o] # "absent" =>
       o \in issued /\ Complete(chain[o], PaymentsOf(o), orders[o])
  /\ \A o \in OrderIds : orders[o] = "absent" => PaymentsOf(o) = {}
  /\ \A h \in Handlers : inflight[h].busy => orders[inflight[h].order] # "absent"

(***************************************************************************)
(* Places in a sequence are finitely many.                                 *)
(***************************************************************************)
LEMMA PlacesAreFinite ==
  ASSUME NEW n \in Nat, NEW S, S \subseteq 1 .. n
  PROVE  IsFiniteSet(S)
<1>1. IsFiniteSet(1 .. n)
  BY FS_Interval
<1> QED BY <1>1, FS_Subset

(***************************************************************************)
(* Appending an event adds its place and moves no other event.             *)
(***************************************************************************)
LEMMA WhereAppend ==
  ASSUME NEW s \in Seq(Events), NEW e \in Events, NEW f \in Events
  PROVE  /\ IsFiniteSet(Where(s, e)) /\ Where(s, e) \subseteq 1 .. Len(s)
         /\ e = f => Where(Append(s, f), e) = Where(s, e) \cup {Len(s) + 1}
         /\ e # f => Where(Append(s, f), e) = Where(s, e)
<1>1. Where(s, e) \subseteq 1 .. Len(s) /\ Len(s) \in Nat
  BY DEF Where
<1>2. IsFiniteSet(Where(s, e))
  BY <1>1, PlacesAreFinite
<1>3. /\ DOMAIN Append(s, f) = DOMAIN s \cup {Len(s) + 1} /\ Append(s, f)[Len(s) + 1] = f
      /\ \A n \in DOMAIN s : Append(s, f)[n] = s[n]
  OBVIOUS
<1> QED BY <1>1, <1>2, <1>3 DEF Where

(***************************************************************************)
(* A new payment and its initiation keep a chain complete.                 *)
(***************************************************************************)
LEMMA InitiatedComplete ==
  ASSUME NEW s \in Seq(Events), NEW P, IsFiniteSet(P), NEW new, new \notin P,
         NEW status, Complete(s, P, status)
  PROVE  Complete(Append(s, "payment.initiated"), P \cup {new}, "payment_pending")
<1> DEFINE t == Append(s, "payment.initiated")
           I == Where(s, "payment.initiated")
<1>1. /\ Where(t, "order.created") = Where(s, "order.created")
      /\ Where(t, "payment.provider_confirmed") = Where(s, "payment.provider_confirmed")
      /\ Where(t, "payment.initiated") = I \cup {Len(s) + 1}
      /\ IsFiniteSet(I) /\ Len(s) + 1 \notin I
  BY WhereAppend DEF Events
<1> HIDE DEF t, I
<1>2. /\ Cardinality(I \cup {Len(s) + 1}) = Cardinality(I) + 1
      /\ Cardinality(P \cup {new}) = Cardinality(P) + 1
  BY <1>1, FS_AddElement
<1>3. Cardinality(I) = Cardinality(P)
  BY DEF Complete, I
<1>4. ASSUME NEW n \in Where(t, "payment.provider_confirmed")
      PROVE  \E l \in Where(t, "payment.initiated") : l < n
  BY <1>1 DEF Complete, I
<1>5. Where(t, "order.created") = {1}
  BY <1>1 DEF Complete
<1>6. Complete(t, P \cup {new}, "payment_pending")
  BY <1>1, <1>2, <1>3, <1>4, <1>5 DEF Complete
<1> QED BY <1>6 DEF t

(***************************************************************************)
(* A confirmation keeps the chain of an order with a payment complete.     *)
(***************************************************************************)
LEMMA ConfirmedComplete ==
  ASSUME NEW s \in Seq(Events), NEW P, IsFiniteSet(P), P # {},
         NEW status, Complete(s, P, status)
  PROVE  Complete(Append(s, "payment.provider_confirmed"), P, "paid")
<1> DEFINE t == Append(s, "payment.provider_confirmed")
           I == Where(s, "payment.initiated")
           K == Where(s, "payment.provider_confirmed")
<1>1. /\ Where(t, "order.created") = Where(s, "order.created")
      /\ Where(t, "payment.initiated") = I
      /\ Where(t, "payment.provider_confirmed") = K \cup {Len(s) + 1}
      /\ IsFiniteSet(I) /\ I \subseteq 1 .. Len(s)
  BY WhereAppend DEF Events
<1> HIDE DEF t, I, K
<1>2. Cardinality(I) = Cardinality(P)
  BY DEF Complete, I
<1>3. I # {}
  BY <1>1, <1>2, FS_EmptySet
<1>4. ASSUME NEW n \in K \cup {Len(s) + 1} PROVE \E l \in I : l < n
  <2>1. CASE n \in K
    BY <2>1 DEF Complete, I, K
  <2>2. CASE n = Len(s) + 1
    <3>1. PICK l \in I : TRUE
      BY <1>3
    <3>2. l < n
      BY <1>1, <2>2
    <3> QED BY <3>2
  <2> QED BY <2>1, <2>2
<1>5. Where(t, "order.created") = {1}
  BY <1>1 DEF Complete
<1>6. Complete(t, P, "paid")
  BY <1>1, <1>2, <1>4, <1>5 DEF Complete
<1> QED BY <1>6 DEF t

(***************************************************************************)
(* Recording a payment of a stored order keeps the evidence.               *)
(***************************************************************************)
LEMMA RecordKeepsEvidence ==
  ASSUME TypeOK, EvidenceInv, NEW o \in OrderIds, NEW k \in Keys,
         NEW p \in ProviderIds \cup {NoId}, orders[o] # "absent", RecordPayment(o, k, p),
         UNCHANGED issued, \A h \in Handlers : inflight'[h].busy => inflight'[h] = inflight[h]
  PROVE  EvidenceInv'
<1> DEFINE new == Len(payments) + 1
<1>1. /\ DOMAIN payments' = DOMAIN payments \cup {new} /\ new \notin DOMAIN payments
      /\ payments'[new].order = o
      /\ \A i \in DOMAIN payments : payments'[i] = payments[i]
  <2>1. NewPayment(o, k, p).order = o
    BY DEF NewPayment
  <2> QED BY <2>1, RecordEffect
<1>2. /\ orders'[o] = "payment_pending" /\ \A x \in OrderIds \ {o} : orders'[x] = orders[x]
      /\ chain'[o] = Append(chain[o], "payment.initiated") /\ chain[o] \in Seq(Events)
      /\ \A x \in OrderIds \ {o} : chain'[x] = chain[x]
  BY DEF RecordPayment, TypeOK
<1>3. IsFiniteSet(PaymentsOf(o))
  <2>1. PaymentsOf(o) \subseteq 1 .. Len(payments) /\ Len(payments) \in Nat
    BY DEF PaymentsOf, TypeOK
  <2> QED BY <2>1, PlacesAreFinite
<1> HIDE DEF new
<1>4. /\ PaymentsOf(o)' = PaymentsOf(o) \cup {new} /\ new \notin PaymentsOf(o)
      /\ \A x \in OrderIds \ {o} : PaymentsOf(x)' = PaymentsOf(x)
  BY <1>1 DEF PaymentsOf
<1>5. o \in issued /\ Complete(chain[o], PaymentsOf(o), orders[o])
  BY DEF EvidenceInv
<1>6. Complete(chain'[o], PaymentsOf(o)', orders'[o])
  BY <1>2, <1>3, <1>4, <1>5, InitiatedComplete
<1>7. ASSUME NEW x \in OrderIds, orders'[x] # "absent"
      PROVE  x \in issued' /\ Complete(chain'[x], PaymentsOf(x)', orders'[x])
  <2>1. CASE x = o
    BY <1>5, <1>6, <2>1
  <2>2. CASE x # o
    <3>1. orders'[x] = orders[x] /\ chain'[x] = chain[x] /\ PaymentsOf(x)' = PaymentsOf(x)
      BY <1>2, <1>4, <2>2
    <3>2. x \in issued /\ Complete(chain[x], PaymentsOf(x), orders[x])
      BY <1>7, <3>1 DEF EvidenceInv
    <3> QED BY <3>1, <3>2
  <2> QED BY <2>1, <2>2
<1>8. \A x \in OrderIds : orders'[x] = "absent" => PaymentsOf(x)' = {}
  BY <1>2, <1>4 DEF EvidenceInv
<1>9. ASSUME NEW h \in Handlers, inflight'[h].busy PROVE orders'[inflight'[h].order] # "absent"
  <2>1. inflight'[h] = inflight[h] /\ orders[inflight[h].order] # "absent"
    BY <1>9 DEF EvidenceInv
  <2>2. inflight[h].order \in OrderIds
    <3>1. inflight[h] # Idle
      BY <1>9, <2>1 DEF Idle
    <3> QED BY <3>1 DEF TypeOK
  <2> QED BY <1>2, <2>1, <2>2
<1> QED BY <1>7, <1>8, <1>9 DEF EvidenceInv

(***************************************************************************)
(* A captured webhook confirms in the chain of the order it matched.       *)
(***************************************************************************)
LEMMA CapturedKeepsEvidence ==
  ASSUME TypeOK, EvidenceInv, NEW m \in Webhook, WebhookCaptured(m)
  PROVE  EvidenceInv'
<1>1. /\ Matched(m) \in DOMAIN payments /\ payments[Matched(m)].order \in OrderIds
      /\ DOMAIN payments' = DOMAIN payments
      /\ \A j \in DOMAIN payments : payments'[j].order = payments[j].order
  BY CapturedEffect
<1>2. PICK o \in OrderIds : o = payments[Matched(m)].order
  BY <1>1
<1>3. /\ orders' = [orders EXCEPT ![o] = "paid"]
      /\ chain' = [chain EXCEPT ![o] = Append(@, "payment.provider_confirmed")]
      /\ UNCHANGED << issued, inflight >> /\ PaymentsOf(o) # {}
  BY <1>1, <1>2 DEF WebhookCaptured, PaymentsOf
<1>4. \A x \in OrderIds : PaymentsOf(x)' = PaymentsOf(x)
  BY <1>1 DEF PaymentsOf
<1>5. /\ orders'[o] = "paid" /\ \A x \in OrderIds \ {o} : orders'[x] = orders[x]
      /\ chain'[o] = Append(chain[o], "payment.provider_confirmed") /\ chain[o] \in Seq(Events)
      /\ \A x \in OrderIds \ {o} : chain'[x] = chain[x]
  BY <1>3 DEF TypeOK
<1>6. IsFiniteSet(PaymentsOf(o))
  <2>1. PaymentsOf(o) \subseteq 1 .. Len(payments) /\ Len(payments) \in Nat
    BY DEF PaymentsOf, TypeOK
  <2> QED BY <2>1, PlacesAreFinite
<1>7. orders[o] # "absent" /\ o \in issued /\ Complete(chain[o], PaymentsOf(o), orders[o])
  BY <1>3 DEF EvidenceInv
<1>8. Complete(chain'[o], PaymentsOf(o)', orders'[o])
  <2>1. Complete(Append(chain[o], "payment.provider_confirmed"), PaymentsOf(o), "paid")
    BY <1>3, <1>5, <1>6, <1>7, ConfirmedComplete
  <2>2. PaymentsOf(o)' = PaymentsOf(o)
    BY <1>4
  <2> QED BY <1>5, <2>1, <2>2
<1>9. ASSUME NEW x \in OrderIds, orders'[x] # "absent"
      PROVE  x \in issued' /\ Complete(chain'[x], PaymentsOf(x)', orders'[x])
  <2>1. CASE x = o
    BY <1>3, <1>7, <1>8, <2>1
  <2>2. CASE x # o
    <3>1. orders'[x] = orders[x] /\ chain'[x] = chain[x] /\ PaymentsOf(x)' = PaymentsOf(x)
      BY <1>4, <1>5, <2>2
    <3>2. x \in issued /\ Complete(chain[x], PaymentsOf(x), orders[x])
      BY <1>9, <3>1 DEF EvidenceInv
    <3> QED BY <1>3, <3>1, <3>2
  <2> QED BY <2>1, <2>2
<1>10. \A x \in OrderIds : orders'[x] = "absent" => PaymentsOf(x)' = {}
  BY <1>4, <1>5 DEF EvidenceInv
<1>11. ASSUME NEW h \in Handlers, inflight'[h].busy PROVE orders'[inflight'[h].order] # "absent"
  <2>1. inflight'[h] = inflight[h] /\ orders[inflight[h].order] # "absent"
    BY <1>3, <1>11 DEF EvidenceInv
  <2>2. inflight[h].order \in OrderIds
    <3>1. inflight[h] # Idle
      BY <1>11, <2>1 DEF Idle
    <3> QED BY <3>1 DEF TypeOK
  <2> QED BY <1>5, <2>1, <2>2
<1> QED BY <1>9, <1>10, <1>11 DEF EvidenceInv

(***************************************************************************)
(* The invariant is preserved by every step.                               *)
(***************************************************************************)
LEMMA EvidenceStep == TypeOK /\ EvidenceInv /\ [Next]_vars => EvidenceInv'
<1> SUFFICES ASSUME TypeOK, EvidenceInv, [Next]_vars PROVE EvidenceInv'
  OBVIOUS
<1>1. ASSUME NEW o \in OrderIds, CreateOrder(o) PROVE EvidenceInv'
  <2>1. orders[o] = "absent" /\ PaymentsOf(o) = {}
    BY <1>1 DEF CreateOrder, EvidenceInv
  <2>2. /\ orders'[o] = "created" /\ \A x \in OrderIds \ {o} : orders'[x] = orders[x]
        /\ chain'[o] = << "order.created" >> /\ \A x \in OrderIds \ {o} : chain'[x] = chain[x]
        /\ issued' = issued \cup {o} /\ UNCHANGED << payments, inflight >>
    BY <1>1 DEF CreateOrder, TypeOK
  <2>3. \A x \in OrderIds : PaymentsOf(x)' = PaymentsOf(x)
    BY <2>2 DEF PaymentsOf
  <2>4. Complete(<< "order.created" >>, {}, "created")
    <3>1. /\ Where(<< "order.created" >>, "order.created") = {1}
          /\ Where(<< "order.created" >>, "payment.initiated") = {}
          /\ Where(<< "order.created" >>, "payment.provider_confirmed") = {}
      BY DEF Where
    <3> QED BY <3>1 DEF Complete
  <2>5. ASSUME NEW x \in OrderIds, orders'[x] # "absent"
        PROVE  x \in issued' /\ Complete(chain'[x], PaymentsOf(x)', orders'[x])
    <3>1. CASE x = o
      BY <2>1, <2>2, <2>3, <2>4, <3>1
    <3>2. CASE x # o
      <4>1. orders'[x] = orders[x] /\ chain'[x] = chain[x] /\ PaymentsOf(x)' = PaymentsOf(x)
        BY <2>2, <2>3, <3>2
      <4>2. x \in issued /\ Complete(chain[x], PaymentsOf(x), orders[x])
        BY <2>5, <4>1 DEF EvidenceInv
      <4> QED BY <2>2, <4>1, <4>2
    <3> QED BY <3>1, <3>2
  <2>6. \A x \in OrderIds : orders'[x] = "absent" => PaymentsOf(x)' = {}
    BY <2>2, <2>3 DEF EvidenceInv
  <2>7. ASSUME NEW h \in Handlers, inflight'[h].busy PROVE orders'[inflight'[h].order] # "absent"
    <3>1. inflight[h].order \in OrderIds
      <4>1. inflight[h] # Idle
        BY <2>2, <2>7 DEF Idle
      <4> QED BY <4>1 DEF TypeOK
    <3> QED BY <2>1, <2>2, <2>7, <3>1 DEF EvidenceInv
  <2> QED BY <2>5, <2>6, <2>7 DEF EvidenceInv
<1>2. ASSUME NEW h \in Handlers, inflight[h].busy
      PROVE  /\ inflight[h].order \in OrderIds /\ inflight[h].key \in Keys
             /\ orders[inflight[h].order] # "absent"
  <2>1. inflight[h] # Idle
    BY <1>2 DEF Idle
  <2>2. inflight[h] \in [busy : {TRUE}, order : OrderIds, key : Keys]
    BY <2>1 DEF TypeOK
  <2> QED BY <1>2, <2>2 DEF EvidenceInv
<1>3. ASSUME NEW o \in OrderIds, NEW k \in Keys, InitiateLocally(o, k) PROVE EvidenceInv'
  <2>1. orders[o] # "absent" /\ UNCHANGED << issued, inflight >>
    BY <1>3 DEF InitiateLocally, MayInitiate
  <2> QED BY <1>3, <2>1, RecordKeepsEvidence DEF InitiateLocally
<1>4. ASSUME NEW h \in Handlers, NEW o \in OrderIds, NEW k \in Keys, InitiateAtProvider(h, o, k)
      PROVE  EvidenceInv'
  <2>1. orders[o] # "absent" /\ UNCHANGED << orders, payments, chain, issued >>
    BY <1>4 DEF InitiateAtProvider, MayInitiate
  <2>2. /\ inflight'[h].order = o
        /\ \A g \in Handlers \ {h} : inflight'[g] = inflight[g]
    BY <1>4 DEF InitiateAtProvider, TypeOK
  <2>3. \A g \in Handlers : inflight'[g].busy => orders'[inflight'[g].order] # "absent"
    BY <2>1, <2>2 DEF EvidenceInv
  <2>4. \A x \in OrderIds : PaymentsOf(x)' = PaymentsOf(x)
    BY <2>1 DEF PaymentsOf
  <2> QED BY <2>1, <2>3, <2>4 DEF EvidenceInv
<1>5. ASSUME NEW h \in Handlers, inflight' = [inflight EXCEPT ![h] = Idle]
      PROVE  \A g \in Handlers : inflight'[g].busy => inflight'[g] = inflight[g]
  <2>1. inflight'[h] = Idle /\ \A g \in Handlers \ {h} : inflight'[g] = inflight[g]
    BY <1>5 DEF TypeOK
  <2> QED BY <2>1 DEF Idle
<1>6. ASSUME NEW h \in Handlers, NEW p \in ProviderIds, ProviderAccepted(h, p)
      PROVE  EvidenceInv'
  BY <1>2, <1>5, <1>6, RecordKeepsEvidence DEF ProviderAccepted
<1>7. ASSUME NEW h \in Handlers, ProviderUnavailable(h) PROVE EvidenceInv'
  BY <1>2, <1>5, <1>7, RecordKeepsEvidence DEF ProviderUnavailable
<1>8. ASSUME UNCHANGED process, UNCHANGED issued PROVE EvidenceInv'
  BY <1>8 DEF process, EvidenceInv, PaymentsOf
<1>9. ASSUME NEW r \in Refs, NEW s \in {"captured", "failed", "authorized"}, Attempt(r, s)
      PROVE  EvidenceInv'
  BY <1>8, <1>9 DEF Attempt
<1>10. ASSUME NEW m \in Webhook, Deliver(m) PROVE EvidenceInv'
  <2>1. CASE WebhookUnmatched(m) \/ WebhookIgnored(m)
    BY <1>8, <2>1 DEF WebhookUnmatched, WebhookIgnored
  <2>2. CASE WebhookFailed(m)
    <3>1. UNCHANGED << orders, chain, inflight, issued >>
      BY <2>2 DEF WebhookFailed
    <3>2. \A x \in OrderIds : PaymentsOf(x)' = PaymentsOf(x)
      BY <2>2, FailedEffect DEF PaymentsOf
    <3> QED BY <3>1, <3>2 DEF EvidenceInv
  <2> QED BY <1>10, <2>1, <2>2, CapturedKeepsEvidence DEF Deliver
<1>11. CASE Restart
  BY <1>11 DEF Restart, EvidenceInv, PaymentsOf, Idle
<1>12. CASE UNCHANGED vars
  BY <1>8, <1>12 DEF vars
<1> QED
  BY <1>1, <1>3, <1>4, <1>6, <1>7, <1>9, <1>10, <1>11, <1>12 DEF Next

(***************************************************************************)
(* In every mode and over every overlap of requests, webhooks and          *)
(* restarts, the evidence of a stored order is complete: a suspended       *)
(* request finds the order it read about still stored when it resumes, and *)
(* a webhook confirms only payments whose initiation is in the chain.      *)
(***************************************************************************)
THEOREM EvidenceIsComplete == Spec => []EvidenceComplete
<1>1. Init => TypeOK /\ EvidenceInv
  BY BoundAssumption, ModeAssumption DEF Init, TypeOK, EvidenceInv, PaymentsOf, Idle
<1>2. TypeOK /\ EvidenceInv /\ [Next]_vars => TypeOK' /\ EvidenceInv'
  BY TypeStep, EvidenceStep
<1>3. EvidenceInv => EvidenceComplete
  BY DEF EvidenceInv, EvidenceComplete, Complete, EventsOf, Where
<1> QED BY <1>1, <1>2, <1>3, PTL DEF Spec
-----------------------------------------------------------------------------
(* Captures and their webhooks.                                            *)

\* A provider order was captured, and the webhook that tells of it is owed no
\* longer.
Told(r) ==
  r \in captured \ {NoId} /\ [ref |-> r, status |-> "captured"] \notin sent \ acked

IsTold(i) == Told(payments[i].provider_order)

ConfirmedIn(o) == Where(chain[o], "payment.provider_confirmed")

\* The provider knows what was captured and what payments refer to, no webhook
\* tells of a capture that was not made, and a provider order has one payment.
LinkInv ==
  /\ captured \subseteq providerOrders \cup OrderIds \cup {NoId}
  /\ \A m \in sent : m.status = "captured" => m.ref \in captured
  /\ \A i \in DOMAIN payments :
       payments[i].provider_order # NoId => payments[i].provider_order \in providerOrders
  /\ \A i, j \in DOMAIN payments :
       (payments[i].provider_order = payments[j].provider_order /\ payments[i].provider_order # NoId)
         => i = j

LossInv ==
  LinkInv /\ \A o \in OrderIds : Cardinality(SettledOf(o)) <= Cardinality(ConfirmedIn(o))

(***************************************************************************)
(* The settled payments of an order, and the confirmations in its chain,   *)
(* are finitely many.                                                      *)
(***************************************************************************)
LEMMA SettledAre ==
  ASSUME TypeOK, NEW o \in OrderIds
  PROVE  /\ SettledOf(o) = {i \in PaymentsOf(o) : IsTold(i)}
         /\ IsFiniteSet(SettledOf(o)) /\ Cardinality(SettledOf(o)) \in Nat
         /\ IsFiniteSet(ConfirmedIn(o)) /\ Cardinality(ConfirmedIn(o)) \in Nat
         /\ ConfirmedIn(o) \subseteq 1 .. Len(chain[o])
<1>1. SettledOf(o) = {i \in PaymentsOf(o) : IsTold(i)}
  BY DEF SettledOf, CapturedOf, Owed, Told, IsTold
<1>2. SettledOf(o) \subseteq 1 .. Len(payments) /\ Len(payments) \in Nat
  BY <1>1 DEF PaymentsOf, TypeOK
<1>3. ConfirmedIn(o) \subseteq 1 .. Len(chain[o]) /\ Len(chain[o]) \in Nat
  BY DEF ConfirmedIn, Where, TypeOK
<1>4. IsFiniteSet(SettledOf(o)) /\ IsFiniteSet(ConfirmedIn(o))
  BY <1>2, <1>3, PlacesAreFinite
<1> QED BY <1>1, <1>3, <1>4, FS_CardinalityType

(***************************************************************************)
(* An order keeps its confirmations ahead of its settled payments when     *)
(* fewer payments are settled, or more confirmations made.                 *)
(***************************************************************************)
LEMMA FewerSettled ==
  ASSUME NEW S, NEW T, NEW C, NEW D, IsFiniteSet(S), IsFiniteSet(D),
         T \subseteq S, C \subseteq D, Cardinality(S) <= Cardinality(C)
  PROVE  Cardinality(T) <= Cardinality(D)
<1>1. IsFiniteSet(T) /\ IsFiniteSet(C) /\ Cardinality(T) <= Cardinality(S)
      /\ Cardinality(C) <= Cardinality(D)
  BY FS_Subset
<1>2. /\ Cardinality(S) \in Nat /\ Cardinality(T) \in Nat
      /\ Cardinality(C) \in Nat /\ Cardinality(D) \in Nat
  BY <1>1, FS_CardinalityType
<1> QED BY <1>1, <1>2

(***************************************************************************)
(* A confirmation makes up for one payment that becomes settled.           *)
(***************************************************************************)
LEMMA OneMoreSettled ==
  ASSUME NEW S, NEW T, NEW C, NEW x, NEW y, IsFiniteSet(S), IsFiniteSet(C),
         T \subseteq S \cup {x}, y \notin C, Cardinality(S) <= Cardinality(C)
  PROVE  Cardinality(T) <= Cardinality(C \cup {y})
<1>1. /\ IsFiniteSet(S \cup {x}) /\ Cardinality(S) \in Nat /\ Cardinality(C) \in Nat
      /\ Cardinality(S \cup {x}) <= Cardinality(S) + 1
      /\ Cardinality(C \cup {y}) = Cardinality(C) + 1
  <2>1. Cardinality(S) \in Nat /\ Cardinality(C) \in Nat
    BY FS_CardinalityType
  <2>2. IsFiniteSet(S \cup {x}) /\ (Cardinality(S \cup {x}) = Cardinality(S)
                                    \/ Cardinality(S \cup {x}) = Cardinality(S) + 1)
    BY FS_AddElement
  <2>3. Cardinality(C \cup {y}) = Cardinality(C) + 1
    BY FS_AddElement
  <2> QED BY <2>1, <2>2, <2>3
<1>2. Cardinality(T) <= Cardinality(S \cup {x}) /\ IsFiniteSet(T)
  BY <1>1, FS_Subset
<1>3. Cardinality(T) \in Nat /\ Cardinality(S \cup {x}) \in Nat
  BY <1>1, <1>2, FS_CardinalityType
<1> QED BY <1>1, <1>2, <1>3

(***************************************************************************)
(* A step that settles no payment and takes no confirmation back.          *)
(***************************************************************************)
LEMMA NothingSettled ==
  ASSUME TypeOK, TypeOK', LossInv, NEW o \in OrderIds,
         SettledOf(o)' \subseteq SettledOf(o), ConfirmedIn(o) \subseteq ConfirmedIn(o)'
  PROVE  Cardinality(SettledOf(o)') <= Cardinality(ConfirmedIn(o)')
<1>1. IsFiniteSet(SettledOf(o))
  BY SettledAre
<1>2. IsFiniteSet(ConfirmedIn(o)')
  <2>1. ConfirmedIn(o)' \subseteq 1 .. Len(chain'[o]) /\ Len(chain'[o]) \in Nat
    BY DEF ConfirmedIn, Where, TypeOK
  <2> QED BY <2>1, PlacesAreFinite
<1>3. Cardinality(SettledOf(o)) <= Cardinality(ConfirmedIn(o))
  BY DEF LossInv
<1> QED BY <1>1, <1>2, <1>3, FewerSettled

(***************************************************************************)
(* A payment is recorded before anyone can pay it: it is not settled yet.  *)
(***************************************************************************)
LEMMA RecordLosesNothing ==
  ASSUME TypeOK, TypeOK', LossInv, NEW o \in OrderIds, NEW k \in Keys,
         NEW p \in ProviderIds \cup {NoId}, RecordPayment(o, k, p),
         p # NoId => p \notin providerOrders /\ p \in providerOrders',
         providerOrders \subseteq providerOrders', UNCHANGED << captured, sent, acked >>
  PROVE  LossInv'
<1>1. PICK new : new = Len(payments) + 1
  OBVIOUS
<1>2. /\ DOMAIN payments' = DOMAIN payments \cup {new} /\ new \notin DOMAIN payments
      /\ payments'[new].provider_order = p
      /\ \A i \in DOMAIN payments : payments'[i] = payments[i]
  <2>1. NewPayment(o, k, p).provider_order = p
    BY DEF NewPayment
  <2> QED BY <1>1, <2>1, RecordEffect
<1>3. LinkInv'
  BY <1>2 DEF LossInv, LinkInv
<1>4. \A r : Told(r)' <=> Told(r)
  BY DEF Told
<1>5. ~ Told(p)
  BY IdAssumption DEF Told, LossInv, LinkInv
<1>6. ASSUME NEW x \in OrderIds
      PROVE  SettledOf(x)' \subseteq SettledOf(x) /\ ConfirmedIn(x) \subseteq ConfirmedIn(x)'
  <2>1. SettledOf(x)' \subseteq SettledOf(x)
    <3>1. SettledOf(x)' = {i \in PaymentsOf(x)' : IsTold(i)'}
      BY DEF SettledOf, CapturedOf, Owed, Told, IsTold
    <3>2. SettledOf(x) = {i \in PaymentsOf(x) : IsTold(i)}
      BY SettledAre
    <3>3. \A i \in PaymentsOf(x)' : i = new \/ (i \in PaymentsOf(x) /\ payments'[i] = payments[i])
      BY <1>2 DEF PaymentsOf
    <3>4. \A i \in PaymentsOf(x)' : IsTold(i)' => i # new
      BY <1>2, <1>4, <1>5, <3>3 DEF IsTold, Told
    <3>5. \A i \in PaymentsOf(x)' : IsTold(i)' /\ i # new => IsTold(i)
      BY <3>3 DEF IsTold, Told
    <3> QED BY <3>1, <3>2, <3>3, <3>4, <3>5
  <2>2. ConfirmedIn(x) \subseteq ConfirmedIn(x)'
    <3>1. CASE x = o
      <4>1. chain[o] \in Seq(Events) /\ chain'[o] = Append(chain[o], "payment.initiated")
        BY DEF RecordPayment, TypeOK
      <4> QED BY <3>1, <4>1, WhereAppend DEF ConfirmedIn, Events
    <3>2. CASE x # o
      BY <3>2 DEF RecordPayment, TypeOK, ConfirmedIn
    <3> QED BY <3>1, <3>2
  <2> QED BY <2>1, <2>2
<1> QED BY <1>3, <1>6, NothingSettled DEF LossInv

(***************************************************************************)
(* A 200 settles the captures that the webhook tells of, and no other.     *)
(***************************************************************************)
LEMMA AcknowledgedSettles ==
  ASSUME NEW m \in Webhook, Arrives(m), UNCHANGED << captured, sent >>, NEW r, Told(r)'
  PROVE  Told(r) \/ (m.ref = r /\ m.status = "captured" /\ r # NoId)
<1>1. acked' = acked \cup {m}
  BY DEF Arrives
<1>2. r \in captured \ {NoId}
  BY DEF Told
<1>3. CASE [ref |-> r, status |-> "captured"] = m
  BY <1>2, <1>3
<1>4. CASE [ref |-> r, status |-> "captured"] # m
  BY <1>1, <1>2, <1>4 DEF Told
<1> QED BY <1>3, <1>4

(***************************************************************************)
(* A webhook that tells of a payment's capture finds that payment, and     *)
(* confirms it in the same step as it is acknowledged.                     *)
(***************************************************************************)
LEMMA CapturedLosesNothing ==
  ASSUME TypeOK, TypeOK', LossInv, NEW m \in Webhook, WebhookCaptured(m)
  PROVE  LossInv'
<1>1. PICK i : i = Matched(m)
  OBVIOUS
<1>2. /\ i \in DOMAIN payments /\ payments[i].order \in OrderIds
      /\ payments[i].order = m.ref \/ payments[i].provider_order = m.ref
  BY <1>1, MatchedIsMatch, CapturedEffect DEF TypeOK, WebhookCaptured
<1>3. PICK o \in OrderIds : o = payments[i].order
  BY <1>2
<1>4. /\ DOMAIN payments' = DOMAIN payments
      /\ \A j \in DOMAIN payments : /\ payments'[j].order = payments[j].order
                                    /\ payments'[j].provider_order = payments[j].provider_order
  BY <1>1, CapturedEffect
<1>5. UNCHANGED << providerOrders, captured, sent >> /\ Arrives(m)
  BY DEF WebhookCaptured, provider
<1>6. LinkInv'
  BY <1>4, <1>5 DEF LossInv, LinkInv
<1>7. /\ chain'[o] = Append(chain[o], "payment.provider_confirmed") /\ chain[o] \in Seq(Events)
      /\ \A x \in OrderIds \ {o} : chain'[x] = chain[x]
  BY <1>1, <1>3 DEF WebhookCaptured, TypeOK
<1>8. ASSUME NEW x \in OrderIds, NEW j \in SettledOf(x)'
      PROVE  j \in SettledOf(x) \/ (x = o /\ j = i)
  <2> PICK r : r = payments[j].provider_order
    OBVIOUS
  <2>1. j \in PaymentsOf(x) /\ Told(r)'
    <3>1. SettledOf(x)' = {l \in PaymentsOf(x)' : IsTold(l)'}
      BY DEF SettledOf, CapturedOf, Owed, Told, IsTold
    <3>2. j \in PaymentsOf(x)' /\ IsTold(j)'
      BY <1>8, <3>1
    <3>3. j \in PaymentsOf(x)
      BY <1>4, <3>2 DEF PaymentsOf
    <3>4. payments'[j].provider_order = payments[j].provider_order
      BY <1>4, <3>3 DEF PaymentsOf
    <3> QED BY <3>2, <3>3, <3>4 DEF Told, IsTold
  <2>2. CASE Told(r)
    BY <2>1, <2>2, SettledAre DEF IsTold
  <2>3. CASE m.ref = r /\ r # NoId
    <3>1. j \in DOMAIN payments /\ payments[j].order = x /\ payments[j] \in Payment
      BY <2>1 DEF PaymentsOf, TypeOK
    <3>2. m.ref \in ProviderIds
      BY <2>3, <3>1 DEF Payment
    <3>3. payments[i].provider_order = m.ref
      BY <1>2, <3>2, IdAssumption
    <3>4. i = j
      BY <1>2, <2>3, <3>1, <3>3 DEF LossInv, LinkInv
    <3> QED BY <1>3, <3>1, <3>4
  <2> QED BY <1>5, <2>1, <2>2, <2>3, AcknowledgedSettles
<1>9. ASSUME NEW x \in OrderIds PROVE Cardinality(SettledOf(x)') <= Cardinality(ConfirmedIn(x)')
  <2>1. CASE x # o
    <3>1. ConfirmedIn(x) \subseteq ConfirmedIn(x)'
      BY <1>7, <2>1 DEF ConfirmedIn
    <3>2. SettledOf(x)' \subseteq SettledOf(x)
      BY <1>8, <2>1
    <3> QED BY <3>1, <3>2, NothingSettled
  <2>2. CASE x = o
    <3>1. PICK y : y = Len(chain[o]) + 1
      OBVIOUS
    <3>2. ConfirmedIn(o)' = ConfirmedIn(o) \cup {y}
      BY <1>7, <3>1, WhereAppend DEF ConfirmedIn, Events
    <3>3. y \notin ConfirmedIn(o)
      BY <1>7, <3>1, SettledAre
    <3>4. SettledOf(o)' \subseteq SettledOf(o) \cup {i}
      BY <1>8
    <3>5. Cardinality(SettledOf(o)) <= Cardinality(ConfirmedIn(o))
      BY DEF LossInv
    <3>6. IsFiniteSet(SettledOf(o)) /\ IsFiniteSet(ConfirmedIn(o))
      BY SettledAre
    <3>7. Cardinality(SettledOf(o)') <= Cardinality(ConfirmedIn(o) \cup {y})
      BY <3>3, <3>4, <3>5, <3>6, OneMoreSettled
    <3> QED BY <2>2, <3>2, <3>7
  <2> QED BY <2>1, <2>2
<1> QED BY <1>6, <1>9 DEF LossInv

(***************************************************************************)
(* The other webhooks: none of them is the capture of a stored payment.    *)
(***************************************************************************)
LEMMA OthersLoseNothing ==
  ASSUME TypeOK, TypeOK', LossInv, NEW m \in Webhook,
         WebhookUnmatched(m) \/ WebhookFailed(m) \/ WebhookIgnored(m)
  PROVE  LossInv'
<1>1. /\ UNCHANGED << chain, providerOrders, captured, sent >> /\ Arrives(m)
      /\ m.status # "captured" \/ Matches(m) = {}
  BY DEF WebhookUnmatched, WebhookFailed, WebhookIgnored, process, provider
<1>2. /\ DOMAIN payments' = DOMAIN payments
      /\ \A j \in DOMAIN payments : /\ payments'[j].order = payments[j].order
                                    /\ payments'[j].provider_order = payments[j].provider_order
  BY FailedEffect DEF WebhookUnmatched, WebhookIgnored, process
<1>3. LinkInv'
  BY <1>1, <1>2 DEF LossInv, LinkInv
<1>4. ASSUME NEW x \in OrderIds PROVE SettledOf(x)' \subseteq SettledOf(x)
  <2> SUFFICES ASSUME NEW j \in SettledOf(x)' PROVE j \in SettledOf(x)
    OBVIOUS
  <2> PICK r : r = payments[j].provider_order
    OBVIOUS
  <2>1. j \in PaymentsOf(x) /\ Told(r)'
    <3>1. SettledOf(x)' = {l \in PaymentsOf(x)' : IsTold(l)'}
      BY DEF SettledOf, CapturedOf, Owed, Told, IsTold
    <3>2. j \in PaymentsOf(x)' /\ IsTold(j)'
      BY <3>1
    <3>3. j \in PaymentsOf(x)
      BY <1>2, <3>2 DEF PaymentsOf
    <3>4. payments'[j].provider_order = payments[j].provider_order
      BY <1>2, <3>3 DEF PaymentsOf
    <3> QED BY <3>2, <3>3, <3>4 DEF Told, IsTold
  <2>2. ~ (m.ref = r /\ m.status = "captured")
    BY <1>1, <2>1 DEF Matches, PaymentsOf
  <2>3. Told(r)
    BY <1>1, <2>1, <2>2, AcknowledgedSettles
  <2> QED BY <2>1, <2>3, SettledAre DEF IsTold
<1>5. \A x \in OrderIds : ConfirmedIn(x)' = ConfirmedIn(x)
  BY <1>1 DEF ConfirmedIn
<1> QED BY <1>3, <1>4, <1>5, NothingSettled DEF LossInv

(***************************************************************************)
(* Every step keeps every capture.                                         *)
(***************************************************************************)
LEMMA LossStep ==
  TypeOK /\ TypeOK' /\ EvidenceInv /\ LossInv /\ [Next]_vars => LossInv'
<1> SUFFICES ASSUME TypeOK, TypeOK', EvidenceInv, LossInv, [Next]_vars PROVE LossInv'
  OBVIOUS
<1>1. ASSUME NEW o \in OrderIds, CreateOrder(o) PROVE LossInv'
  <2>1. /\ UNCHANGED << payments, providerOrders, captured, sent, acked >> /\ PaymentsOf(o) = {}
        /\ \A x \in OrderIds \ {o} : chain'[x] = chain[x]
    BY <1>1 DEF CreateOrder, EvidenceInv, provider, TypeOK
  <2>2. LinkInv'
    BY <2>1 DEF LossInv, LinkInv
  <2>3. \A x \in OrderIds : SettledOf(x)' = SettledOf(x)
    BY <2>1 DEF SettledOf, CapturedOf, PaymentsOf, Owed
  <2>4. ASSUME NEW x \in OrderIds PROVE Cardinality(SettledOf(x)') <= Cardinality(ConfirmedIn(x)')
    <3>1. CASE x = o
      <4>1. SettledOf(o)' = {}
        BY <2>1, <2>3 DEF SettledOf, CapturedOf
      <4>2. IsFiniteSet(ConfirmedIn(o)')
        <5>1. ConfirmedIn(o)' \subseteq 1 .. Len(chain'[o]) /\ Len(chain'[o]) \in Nat
          BY DEF ConfirmedIn, Where, TypeOK
        <5> QED BY <5>1, PlacesAreFinite
      <4> QED BY <3>1, <4>1, <4>2, FS_EmptySet, FS_CardinalityType
    <3>2. CASE x # o
      <4>1. ConfirmedIn(x)' = ConfirmedIn(x)
        BY <2>1, <3>2 DEF ConfirmedIn
      <4> QED BY <2>3, <4>1 DEF LossInv
    <3> QED BY <3>1, <3>2
  <2> QED BY <2>2, <2>4 DEF LossInv
<1>2. ASSUME NEW h \in Handlers, inflight[h].busy
      PROVE  inflight[h].order \in OrderIds /\ inflight[h].key \in Keys
  <2>1. inflight[h] # Idle
    BY <1>2 DEF Idle
  <2>2. inflight[h] \in [busy : {TRUE}, order : OrderIds, key : Keys]
    BY <2>1 DEF TypeOK
  <2> QED BY <2>2
<1>3. ASSUME NEW o \in OrderIds, NEW k \in Keys, InitiateLocally(o, k) PROVE LossInv'
  BY <1>3, RecordLosesNothing DEF InitiateLocally, provider
<1>4. ASSUME UNCHANGED << payments, chain, providerOrders, captured, sent, acked >> PROVE LossInv'
  <2>1. LinkInv'
    BY <1>4 DEF LossInv, LinkInv
  <2>2. \A x \in OrderIds : SettledOf(x)' = SettledOf(x) /\ ConfirmedIn(x)' = ConfirmedIn(x)
    BY <1>4 DEF SettledOf, CapturedOf, PaymentsOf, Owed, ConfirmedIn
  <2> QED BY <2>1, <2>2 DEF LossInv
<1>5. ASSUME NEW h \in Handlers, NEW o \in OrderIds, NEW k \in Keys, InitiateAtProvider(h, o, k)
      PROVE  LossInv'
  BY <1>4, <1>5 DEF InitiateAtProvider, provider
<1>6. ASSUME NEW h \in Handlers, NEW p \in ProviderIds, ProviderAccepted(h, p) PROVE LossInv'
  BY <1>2, <1>6, RecordLosesNothing DEF ProviderAccepted
<1>7. ASSUME NEW h \in Handlers, ProviderUnavailable(h) PROVE LossInv'
  BY <1>2, <1>7, RecordLosesNothing DEF ProviderUnavailable, provider
<1>8. ASSUME NEW r \in Refs, NEW s \in {"captured", "failed", "authorized"}, Attempt(r, s)
      PROVE  LossInv'
  <2>1. /\ r \in Payable /\ r \notin captured /\ sent' = sent \cup {[ref |-> r, status |-> s]}
        /\ captured' = IF s = "captured" THEN captured \cup {r} ELSE captured
        /\ UNCHANGED << payments, chain, providerOrders, acked >>
    BY <1>8 DEF Attempt, process
  <2>2. r \in providerOrders \cup OrderIds \cup {NoId}
    BY <2>1 DEF Payable
  <2>3. LinkInv'
    BY <2>1, <2>2 DEF LossInv, LinkInv
  <2>4. ASSUME NEW q, Told(q)' PROVE Told(q)
    <3>1. CASE q \in captured
      BY <2>1, <2>4, <3>1 DEF Told
    <3>2. CASE q \notin captured
      <4>1. q = r /\ s = "captured"
        BY <2>1, <2>4, <3>2 DEF Told
      <4>2. [ref |-> r, status |-> "captured"] \in sent'
        BY <2>1, <4>1
      <4>3. [ref |-> r, status |-> "captured"] \in acked
        BY <2>1, <2>4, <4>1, <4>2 DEF Told
      <4> QED BY <2>1, <4>3 DEF TypeOK, LossInv, LinkInv
    <3> QED BY <3>1, <3>2
  <2>5. \A x \in OrderIds : SettledOf(x)' \subseteq SettledOf(x) /\ ConfirmedIn(x)' = ConfirmedIn(x)
    <3> TAKE x \in OrderIds
    <3>1. SettledOf(x)' = {i \in PaymentsOf(x) : IsTold(i)'}
      BY <2>1 DEF SettledOf, CapturedOf, PaymentsOf, Owed, Told, IsTold
    <3>2. \A i : IsTold(i)' => IsTold(i)
      BY <2>1, <2>4 DEF IsTold, Told
    <3> QED BY <2>1, <3>1, <3>2, SettledAre DEF ConfirmedIn
  <2> QED BY <2>3, <2>5, NothingSettled DEF LossInv
<1>9. ASSUME NEW m \in Webhook, Deliver(m) PROVE LossInv'
  BY <1>9, CapturedLosesNothing, OthersLoseNothing DEF Deliver
<1>10. CASE Restart
  <2>1. payments' = << >> /\ UNCHANGED << providerOrders, captured, sent, acked >>
    BY <1>10 DEF Restart, provider
  <2>2. LinkInv'
    BY <2>1 DEF LossInv, LinkInv
  <2>3. \A x \in OrderIds : SettledOf(x)' = {} /\ ConfirmedIn(x)' = {}
    BY <1>10, <2>1 DEF Restart, SettledOf, CapturedOf, PaymentsOf, ConfirmedIn, Where
  <2> QED BY <2>2, <2>3, FS_EmptySet DEF LossInv
<1>11. CASE UNCHANGED vars
  BY <1>4, <1>11 DEF vars, process, provider
<1> QED
  BY <1>1, <1>3, <1>5, <1>6, <1>7, <1>8, <1>9, <1>10, <1>11 DEF Next

(***************************************************************************)
(* In every mode, over every overlap of requests, webhooks and restarts: a *)
(* capture of a stored payment whose webhook is owed no longer is in the   *)
(* evidence, and two captures of one order are two confirmations.          *)
(***************************************************************************)
THEOREM CapturesAreKept == Spec => []NoCaptureIsLost
<1>1. Init => TypeOK /\ EvidenceInv /\ LossInv
  <2> SUFFICES ASSUME Init PROVE TypeOK /\ EvidenceInv /\ LossInv
    OBVIOUS
  <2>1. TypeOK /\ EvidenceInv
    BY BoundAssumption, ModeAssumption DEF Init, TypeOK, EvidenceInv, PaymentsOf, Idle
  <2>2. LinkInv
    BY DEF Init, LinkInv
  <2>3. \A o \in OrderIds : SettledOf(o) = {} /\ ConfirmedIn(o) = {}
    BY DEF Init, SettledOf, CapturedOf, PaymentsOf, ConfirmedIn, Where
  <2> QED BY <2>1, <2>2, <2>3, FS_EmptySet DEF LossInv
<1>2. TypeOK /\ EvidenceInv /\ LossInv /\ [Next]_vars => TypeOK' /\ EvidenceInv' /\ LossInv'
  BY TypeStep, EvidenceStep, LossStep
<1>3. LossInv => NoCaptureIsLost
  BY DEF LossInv, NoCaptureIsLost, ConfirmedIn, EventsOf, Where
<1> QED BY <1>1, <1>2, <1>3, PTL DEF Spec

(***************************************************************************)
(* What CaptureIsRecorded leaves to fairness is that every webhook gets a  *)
(* 200: whenever none is owed, every capture of an order's payments is in  *)
(* its evidence, where no payment of the account is unlinked.              *)
(***************************************************************************)
THEOREM NothingOwedNothingMissing ==
  ASSUME ~ UnlinkedPayments
  PROVE  Spec => [](sent \subseteq acked =>
                      \A o \in OrderIds :
                        Cardinality(CapturedOf(o))
                          <= Cardinality(EventsOf(o, "payment.provider_confirmed")))
<1>1. Init => TypeOK /\ PaidInv
  BY BoundAssumption, ModeAssumption DEF Init, TypeOK, PaidInv
<1>2. TypeOK /\ PaidInv /\ [Next]_vars => TypeOK' /\ PaidInv'
  BY TypeStep, PaidStep
<1>3. PaidInv /\ NoCaptureIsLost
        => (sent \subseteq acked =>
              \A o \in OrderIds :
                Cardinality(CapturedOf(o))
                  <= Cardinality(EventsOf(o, "payment.provider_confirmed")))
  <2> SUFFICES ASSUME PaidInv, NoCaptureIsLost, sent \subseteq acked, NEW o \in OrderIds
               PROVE  Cardinality(CapturedOf(o))
                        <= Cardinality(EventsOf(o, "payment.provider_confirmed"))
    OBVIOUS
  <2>1. SettledOf(o) = CapturedOf(o)
    BY DEF SettledOf, CapturedOf, Owed, PaidInv
  <2> QED BY <2>1 DEF NoCaptureIsLost
<1> QED BY <1>1, <1>2, <1>3, CapturesAreKept, PTL DEF Spec
=============================================================================
