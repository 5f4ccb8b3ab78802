------------------------------- MODULE Worker -------------------------------
(***************************************************************************)
(* The reconciliation task of apps/worker/main.py beside the API process.  *)
(* Each process imports apps.api.routes.orders and so has a _payments of   *)
(* its own: the API's is filled by initiate_payment and the webhook, the   *)
(* worker's is what the import made.  The other two tasks of the worker    *)
(* import names that the route modules do not have and end every sweep in  *)
(* the exception handler, so that they change nothing.                     *)
(***************************************************************************)
EXTENDS Integers

CONSTANTS
  PaymentIds,
  PaymentTimeout,  \* payment_timeout_seconds, a natural number
  MaxTime          \* bound on the clock, a natural number

VARIABLES
  now,
  api_payments,    \* _payments of the API process
  worker_payments  \* _payments of the worker process

vars == << now, api_payments, worker_payments >>

(***************************************************************************)
(* created_at is isoformat(), which ends in a UTC offset, and a Z; the     *)
(* worker turns the Z into a second offset, and fromisoformat takes one.   *)
(***************************************************************************)
CreatedAt(t) == [at |-> t, offsets |-> 2]

fromisoformat_ok(s) == s.offsets <= 1

NewPayment ==
  [ local_state |-> "initiated", confirmed |-> FALSE,
    needs_reconciliation |-> FALSE, created_at |-> CreatedAt(now) ]

Stuck(p) ==
  /\ p.local_state = "initiated" /\ ~ p.confirmed /\ ~ p.needs_reconciliation
  /\ fromisoformat_ok(p.created_at)
  /\ now - p.created_at.at > PaymentTimeout

-----------------------------------------------------------------------------
NoPayments == [p \in {} |-> NewPayment]

Init == now = 0 /\ api_payments = NoPayments /\ worker_payments = NoPayments

InitiatePayment(p) ==
  /\ p \notin DOMAIN api_payments
  /\ api_payments' =
       [x \in DOMAIN api_payments \cup {p} |-> IF x = p THEN NewPayment ELSE api_payments[x]]
  /\ UNCHANGED << now, worker_payments >>

\* A captured webhook.
Webhook(p) ==
  /\ p \in DOMAIN api_payments
  /\ api_payments' = [api_payments EXCEPT ![p].confirmed = TRUE, ![p].local_state = "completed"]
  /\ UNCHANGED << now, worker_payments >>

Sweep ==
  /\ worker_payments' =
       [p \in DOMAIN worker_payments |->
          IF Stuck(worker_payments[p])
          THEN [worker_payments[p] EXCEPT !.needs_reconciliation = TRUE, !.local_state = "timeout"]
          ELSE worker_payments[p]]
  /\ UNCHANGED << now, api_payments >>

Tick == now < MaxTime /\ now' = now + 1 /\ UNCHANGED << api_payments, worker_payments >>

Next ==
  \/ \E p \in PaymentIds : InitiatePayment(p) \/ Webhook(p)
  \/ Sweep
  \/ Tick

\* Time passes and the worker's loop goes on; no webhook has to come.
Spec == Init /\ [][Next]_vars /\ WF_vars(Tick) /\ WF_vars(Sweep)

-----------------------------------------------------------------------------
(***************************************************************************)
(* A payment that stays unconfirmed for longer than the timeout is marked  *)
(* as needing reconciliation (worker/main.py:69-77), unless its webhook    *)
(* still comes.  Asked of the payments the bounded clock lets grow old.    *)
(***************************************************************************)
GrowsOld(p) ==
  p \in DOMAIN api_payments /\ api_payments[p].created_at.at + PaymentTimeout < MaxTime

Resolved(p) ==
  p \in DOMAIN api_payments /\ (api_payments[p].confirmed \/ api_payments[p].needs_reconciliation)

StuckIsFlagged == \A p \in PaymentIds : GrowsOld(p) ~> Resolved(p)
=============================================================================
