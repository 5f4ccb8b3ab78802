--------------------------- MODULE CommerceStates ---------------------------
(***************************************************************************)
(* The lifecycle tables of backend/kernel/domain/commerce_states.py and    *)
(* the generic machine of state_machine.py that reads them.  A machine is  *)
(* its set of transitions <<state, event, target>> and its terminal        *)
(* states; none of these tables has a guard.                               *)
(***************************************************************************)

CART_SM ==
  [ transitions |->
      { << "open", "price", "priced" >>,
        << "priced", "request_consent", "consent_pending" >>,
        << "consent_pending", "approve", "authorized" >>,
        << "consent_pending", "reject", "cancelled" >>,
        << "consent_pending", "timeout", "expired" >>,
        << "authorized", "submit_payment", "payment_pending" >>,
        << "payment_pending", "payment_confirmed", "paid" >>,
        << "payment_pending", "payment_failed", "authorized" >>,
        << "payment_pending", "timeout", "expired" >>,
        << "open", "cancel", "cancelled" >>,
        << "priced", "cancel", "cancelled" >>,
        << "authorized", "cancel", "cancelled" >> },
    terminal |-> {"paid", "expired", "cancelled"} ]

\* Mutant: an order that is paid can still be cancelled.
ORDER_SM_LateCancel ==
  [ transitions |->
      { << "created", "payment_initiated", "payment_pending" >>,
        << "payment_pending", "payment_confirmed", "paid" >>,
        << "paid", "start_fulfillment", "fulfilling" >>,
        << "paid", "cancel", "cancelled" >> },
    terminal |-> {"cancelled", "refunded"} ]

ORDER_SM ==
  [ transitions |->
      { << "created", "payment_initiated", "payment_pending" >>,
        << "payment_pending", "payment_confirmed", "paid" >>,
        << "payment_pending", "payment_failed", "payment_failed" >>,
        << "paid", "start_fulfillment", "fulfilling" >>,
        << "fulfilling", "ship", "shipped" >>,
        << "shipped", "deliver", "delivered" >>,
        << "created", "cancel", "cancelled" >>,
        << "payment_pending", "cancel", "cancelled" >>,
        << "payment_failed", "retry_payment", "payment_pending" >>,
        << "paid", "refund", "refunded" >>,
        << "delivered", "refund", "refunded" >> },
    terminal |-> {"cancelled", "refunded"} ]

\* Mutant: a payment that timed out is never reconciled.
PAYMENT_LOCAL_SM_Unreconciled ==
  [ transitions |->
      { << "initiated", "send_to_provider", "provider_requested" >>,
        << "provider_requested", "provider_ack", "provider_acknowledged" >>,
        << "provider_acknowledged", "webhook_success", "completed" >>,
        << "provider_acknowledged", "timeout", "timeout" >> },
    terminal |-> {"completed", "failed", "abandoned"} ]

PAYMENT_LOCAL_SM ==
  [ transitions |->
      { << "initiated", "send_to_provider", "provider_requested" >>,
        << "provider_requested", "provider_ack", "provider_acknowledged" >>,
        << "provider_requested", "provider_error", "provider_error" >>,
        << "provider_error", "retry", "provider_requested" >>,
        << "provider_error", "abandon", "abandoned" >>,
        << "provider_acknowledged", "webhook_success", "completed" >>,
        << "provider_acknowledged", "webhook_failure", "failed" >>,
        << "provider_acknowledged", "timeout", "timeout" >>,
        << "timeout", "reconcile_success", "completed" >>,
        << "timeout", "reconcile_failure", "failed" >> },
    terminal |-> {"completed", "failed", "abandoned"} ]

(***************************************************************************)
(* StateMachine.transition takes the step from s to t on some event: s is  *)
(* not terminal and the table has it.                                      *)
(***************************************************************************)
IsStep(sm, s, t) ==
  /\ s \notin sm.terminal
  /\ \E row \in sm.transitions : row[1] = s /\ row[3] = t
=============================================================================
