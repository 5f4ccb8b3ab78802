------------------------- MODULE AuthorizationGate -------------------------
(***************************************************************************)
(* The pure part of the authorization decision: backend/kernel/            *)
(* authorization/gate.py evaluates sixteen predicates, resolved by its     *)
(* caller, in a fixed order and stops at the first one that fails.         *)
(***************************************************************************)
EXTENDS Integers, FiniteSets

(***************************************************************************)
(* The predicates' rule identifiers, in evaluation order.                  *)
(***************************************************************************)
RuleIds ==
  << "AUTH_001_REQUEST_FORMAT",   "AUTH_002_PRINCIPAL_AUTHENTICATED",
     "AUTH_003_PRINCIPAL_ACTIVE", "AUTH_004_AGENT_ACTIVE",
     "AUTH_005_AGENT_OWNED",      "AUTH_006_MANDATE_EXISTS",
     "AUTH_007_MANDATE_ACTIVE",   "AUTH_008_MANDATE_OWNED",
     "AUTH_009_CATEGORY_ALLOWED", "AUTH_010_BUDGET_SUFFICIENT",
     "AUTH_011_MERCHANT_ALLOWED", "AUTH_012_CART_HASH_MATCHES",
     "AUTH_013_CONSENT_VALID",    "AUTH_014_CONSENT_CART_MATCHES",
     "AUTH_015_NONCE_UNUSED",     "AUTH_016_IDEMPOTENCY_FRESH" >>

Rules == 1 .. 16

(***************************************************************************)
(* The sixteen truth values, from the inputs of `evaluate'.  Rules 1, 2    *)
(* and 6 are the constant True in the code: their work is done by request  *)
(* validation and by the caller's lookups.                                 *)
(***************************************************************************)
Predicates(in) ==
  << TRUE,                TRUE,             in.principal_active, in.agent_active,
     in.agent_owned,      TRUE,             in.mandate_active,   in.mandate_owned,
     in.category_ok,      in.has_budget,    in.merchant_ok,      in.cart_bound,
     in.consent_valid,    in.consent_cart,  in.nonce_unused,     in.key_fresh >>

(***************************************************************************)
(* The loop over the predicates: the first failure ends it with a DENY     *)
(* that names the rule.                                                    *)
(***************************************************************************)
\* Mutant: the loop stops one predicate short.
PassesButLast(in) == \A r \in Rules \ {16} : Predicates(in)[r]

Passes(in) == \A r \in Rules : Predicates(in)[r]

FirstFailure(in) ==
  CHOOSE r \in Rules : /\ ~ Predicates(in)[r]
                       /\ \A s \in 1 .. (r - 1) : Predicates(in)[s]
=============================================================================
