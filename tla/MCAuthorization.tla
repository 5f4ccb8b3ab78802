-------------------------- MODULE MCAuthorization --------------------------
(***************************************************************************)
(* A small instance of Authorization for TLC: two mandates whose terms     *)
(* differ in every limit, one consent, two nonces and two keys.            *)
(***************************************************************************)
EXTENDS Authorization, TLC

CONSTANTS u1, u2, m1, m2, c1, h1, h2, n1, n2, k1, k2

MCUsers == {u1, u2}
MCOneUser == {u1}
MCMandateIds == {m1, m2}
MCConsentIds == {c1}
MCCartHashes == {h1, h2}
MCNonces == {n1, n2}
MCKeys == {k1, k2}

MCTerm(max, cats, shops, f, t) ==
  [max |-> max, categories |-> cats, merchants |-> shops, from |-> f, until |-> t]

\* A mandate that is not valid yet, a restricted one that ends, and one whose
\* bound raises.
MCTerms ==
  { MCTerm(2, {}, {}, 1, NoBound), MCTerm(3, {"books"}, {"shop"}, NoBound, 0),
    MCTerm(2, {}, {}, NoBound, Naive) }

\* The cart decides category, merchant and amount.
MCRequest(m, c, h, n, k) ==
  [ principal |-> u1, mandate |-> m, consent |-> c, cart |-> h,
    amount |-> IF h = h1 THEN 1 ELSE 2,
    category |-> IF h = h1 THEN "books" ELSE "toys",
    merchant |-> IF h = h1 THEN "shop" ELSE "stall",
    nonce |-> n, key |-> k ]

MCRequests ==
  { MCRequest(m, c, h, n, k) :
      m \in {m1, m2}, c \in MCConsentIds, h \in {h1, h2}, n \in {n1, n2}, k \in {k1, k2} }

MCSymmetry ==
  Permutations(MandateIds) \cup Permutations(Nonces) \cup Permutations(Keys)
=============================================================================
