-------------------------- MODULE ProviderMessages --------------------------
(***************************************************************************)
(* What the provider says and how it is believed: the head of              *)
(* razorpay_webhook in apps/api/routes/orders.py, and the signature of a   *)
(* checkout in adapters/payment/razorpay.py, which no route asks for yet.  *)
(* Webhooks are signed with one secret, the result of a checkout that the  *)
(* client brings back with another.  Bodies, ids and signatures may reach  *)
(* us altered or mixed up.                                                 *)
(***************************************************************************)
EXTENDS Integers, FiniteSets

CONSTANTS
  ProviderOrders, ProviderPayments,   \* ids drawn by the provider, of payments we know
  WebhookSecret, KeySecret,           \* the secrets shared with the provider
  MaxSigned,                          \* bound on what the provider signs
  Nothing                             \* no entity; no signature; an empty setting

ASSUME SignedAssumption  == MaxSigned \in Nat
ASSUME NothingAssumption == Nothing \notin {WebhookSecret, KeySecret}

VARIABLES
  webhook_secret,   \* settings.razorpay_webhook_secret, '' unless it is configured
  signatures,       \* made by the provider
  confirmed,        \* what webhooks made of our payments: [order, state]
  returned          \* checkouts believed: [order, payment]

messageVars == << webhook_secret, signatures, confirmed, returned >>

PaymentStatuses == {"authorized", "captured", "failed", "refunded"}

Entity == [order_id : ProviderOrders, status : PaymentStatuses]

\* A webhook body, and the message of a checkout, "order|payment".
Body(e)        == [kind |-> "body", entity |-> e]
Checkout(o, p) == [kind |-> "checkout", order |-> o, payment |-> p]

\* HMAC-SHA256: nothing but the same secret and message gives the same value.
Hmac(secret, message) == [secret |-> secret, message |-> message]

\* What a request may bring along: no signature, one the provider made for
\* some message, or a text that is nobody's signature.
Brought == signatures \cup {Nothing, Hmac(Nothing, Nothing)}

\* Mutant: the order is not part of the message.
verify_checkout_AnyOrder(o, p, sig) ==
  sig # Nothing /\ \E x \in ProviderOrders : sig = Hmac(KeySecret, Checkout(x, p))

verify_checkout(o, p, sig) == sig # Nothing /\ sig = Hmac(KeySecret, Checkout(o, p))

verify_webhook_signature(body, sig, secret) == sig = Hmac(secret, body)

\* Mutant: it is enough that the signature was made with the secret.
Trusted_Maker(body, sig) ==
  sig # Nothing /\ (webhook_secret # Nothing => sig.secret = webhook_secret)

\* The two 401s of the route.  Without a configured secret every signature
\* that is not empty will do.
Trusted(body, sig) ==
  sig # Nothing /\ (webhook_secret # Nothing => verify_webhook_signature(body, sig, webhook_secret))

-----------------------------------------------------------------------------
MessagesInit ==
  /\ webhook_secret \in {WebhookSecret, Nothing}
  /\ signatures = {} /\ confirmed = {} /\ returned = {}

\* The provider signs a webhook, or a checkout that it completed.
Signs(sig) ==
  /\ Cardinality(signatures) < MaxSigned
  /\ signatures' = signatures \cup {sig}
  /\ UNCHANGED << webhook_secret, confirmed, returned >>

\* A webhook arrives with some signature.  A body without an entity is a 400;
\* the payment is found by the order of the entity, and a status other than
\* these two changes nothing.
WebhookArrives(e, sig) ==
  /\ Trusted(Body(e), sig)
  /\ e # Nothing
  /\ e.status \in {"captured", "failed"}
  /\ confirmed' = confirmed \cup {[order |-> e.order_id, state |-> e.status]}
  /\ UNCHANGED << webhook_secret, signatures, returned >>

\* The client comes back from the checkout.
CheckoutReturns(o, p, sig) ==
  /\ verify_checkout(o, p, sig)
  /\ returned' = returned \cup {[order |-> o, payment |-> p]}
  /\ UNCHANGED << webhook_secret, signatures, confirmed >>

MessagesNext ==
  \/ \E e \in Entity \cup {Nothing} : Signs(Hmac(WebhookSecret, Body(e)))
  \/ \E o \in ProviderOrders, p \in ProviderPayments : Signs(Hmac(KeySecret, Checkout(o, p)))
  \/ \E e \in Entity \cup {Nothing}, sig \in Brought : WebhookArrives(e, sig)
  \/ \E o \in ProviderOrders, p \in ProviderPayments, sig \in Brought : CheckoutReturns(o, p, sig)

MessagesSpec == MessagesInit /\ [][MessagesNext]_messageVars

-----------------------------------------------------------------------------
(***************************************************************************)
(* README invariant 9, "Only verified provider webhook can transition to   *)
(* paid", where a webhook secret is configured (orders.py:333): an order   *)
(* is taken for captured or failed only when the provider announced this   *)
(* status of this order, whatever bodies and signatures were mixed up on   *)
(* the way and although checkouts are signed as well.  Without a secret,   *)
(* the default of config.py:44, the route verifies nothing and the         *)
(* invariant is not kept.                                                  *)
(***************************************************************************)
ConfirmedWasAnnounced ==
  webhook_secret # Nothing =>
    \A c \in confirmed :
      Hmac(WebhookSecret, Body([order_id |-> c.order, status |-> c.state])) \in signatures

(***************************************************************************)
(* A checkout that is believed joins an order and a payment that the       *)
(* provider joined, never the order of one with the payment of another.    *)
(***************************************************************************)
CheckoutWasCompleted ==
  \A r \in returned : Hmac(KeySecret, Checkout(r.order, r.payment)) \in signatures
=============================================================================
