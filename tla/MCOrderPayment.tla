--------------------------- MODULE MCOrderPayment ---------------------------
(***************************************************************************)
(* Small instances of OrderPayment for TLC: two orders, two keys, two      *)
(* provider orders and two requests that may be suspended at once.         *)
(***************************************************************************)
EXTENDS OrderPayment, TLC

CONSTANTS o1, o2, p1, p2, k1, k2, h1, h2

MCOrderIds == {o1, o2}
MCProviderIds == {p1, p2}
MCKeys == {k1, k2}
MCHandlers == {h1, h2}
MCOneHandler == {h1}
MCOneOrder == {o1}

MCSymmetry ==
  Permutations(OrderIds) \cup Permutations(ProviderIds)
    \cup Permutations(Keys) \cup Permutations(Handlers)
=============================================================================
