----------------------------- MODULE Lifecycle -----------------------------
(***************************************************************************)
(* The three lifecycle tables of commerce_states.py at work: a cart, its   *)
(* order and the order's payment, each moved by StateMachine.transition on *)
(* whatever event arrives.  The tables are independent of each other, and  *)
(* an event the table does not have leaves the state alone.                *)
(***************************************************************************)
EXTENDS CommerceStates

VARIABLES cart, order, payment

lifecycleVars == << cart, order, payment >>

States(sm) == {row[1] : row \in sm.transitions} \cup {row[3] : row \in sm.transitions}

LifecycleInit == cart = "open" /\ order = "created" /\ payment = "initiated"

CartEvent ==
  /\ \E t \in States(CART_SM) : IsStep(CART_SM, cart, t) /\ cart' = t
  /\ UNCHANGED << order, payment >>

OrderEvent ==
  /\ \E t \in States(ORDER_SM) : IsStep(ORDER_SM, order, t) /\ order' = t
  /\ UNCHANGED << cart, payment >>

PaymentEvent ==
  /\ \E t \in States(PAYMENT_LOCAL_SM) : IsStep(PAYMENT_LOCAL_SM, payment, t) /\ payment' = t
  /\ UNCHANGED << cart, order >>

LifecycleNext == CartEvent \/ OrderEvent \/ PaymentEvent

LifecycleSpec == LifecycleInit /\ [][LifecycleNext]_lifecycleVars

-----------------------------------------------------------------------------
(***************************************************************************)
(* No state is a trap: wherever a cart, an order or a payment got, a       *)
(* sequence of events leads it to a terminal state.  That is, whatever set *)
(* of states it cannot leave has a terminal state in it.                   *)
(***************************************************************************)
Closed(sm, S) == \A row \in sm.transitions : row[1] \in S => row[3] \in S

CanEnd(sm) ==
  {s \in States(sm) :
     \A S \in SUBSET States(sm) : s \in S /\ Closed(sm, S) => S \cap sm.terminal # {}}

EndingCarts    == CanEnd(CART_SM)
EndingOrders   == CanEnd(ORDER_SM)
EndingPayments == CanEnd(PAYMENT_LOCAL_SM)

NoTrap == cart \in EndingCarts /\ order \in EndingOrders /\ payment \in EndingPayments

(***************************************************************************)
(* What was paid stays accounted for: once an order is paid, it is being   *)
(* delivered or refunded, and never merely cancelled or pending again.     *)
(***************************************************************************)
Settled == {"paid", "fulfilling", "shipped", "delivered", "refunded"}

PaidIsKept == [][(order \in Settled) => (order' \in Settled)]_lifecycleVars
=============================================================================
