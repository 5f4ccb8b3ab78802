---------------------------- MODULE Negotiation ----------------------------
(***************************************************************************)
(* The negotiation session of backend/kernel/negotiation/solver.py: rounds *)
(* of offers are filtered by the user's constraints, pruned of dominated   *)
(* offers and ranked; the first of the ranking is the best offer.          *)
(***************************************************************************)
EXTENDS Integers, Sequences

CONSTANTS
  Offers,       \* offers merchants may make, as their ranked criteria
  Lists,        \* lists of offers a round may receive
  Constraints,  \* constraints a session may have
  MAX_ROUNDS,   \* 5 in the code
  MaxOffers,    \* MAX_OFFERS_PER_ROUND * MAX_MERCHANTS, 100 in the code
  Absent        \* no session, no constraints, no best offer

OfferType ==
  [ total : Int, shipping_days : Int, warranty : Int, window : Int, returnable : BOOLEAN ]

ConstraintType ==
  [ max_total : Int, min_warranty : Int, max_shipping_days : Int,
    require_returnable : BOOLEAN, min_window : Int ]

ASSUME OfferAssumption ==
  /\ Offers \subseteq OfferType /\ Lists \subseteq Seq(Offers) /\ Absent \notin Offers
ASSUME ConstraintAssumption == Constraints \subseteq ConstraintType \cup {Absent}
ASSUME StatusAssumption == Absent \notin {"open", "accepted", "timeout", "cancelled"}
ASSUME RoundAssumption == MAX_ROUNDS \in Nat /\ MaxOffers \in Nat

VARIABLES
  constraints,  \* set when the session is created, or Absent
  status,
  rounds,       \* the offers received, one list a round
  best          \* best_offer

negotiationVars == << constraints, status, rounds, best >>

-----------------------------------------------------------------------------
Offered(list) == {list[i] : i \in 1 .. Len(list)}

\* filter_by_constraints
Meets(o, c) ==
  c # Absent =>
    /\ o.total <= c.max_total
    /\ o.warranty >= c.min_warranty
    /\ o.shipping_days <= c.max_shipping_days
    /\ c.require_returnable => o.returnable
    /\ o.window >= c.min_window

\* Lower is better in every criterion.
criteria(o) == << o.total, o.shipping_days, - o.warranty, - o.window >>

\* Mutant: equal offers dominate each other.
dominates_or_equals(a, b) == \A k \in 1 .. 4 : criteria(a)[k] <= criteria(b)[k]

offer_dominates(a, b) ==
  /\ \A k \in 1 .. 4 : criteria(a)[k] <= criteria(b)[k]
  /\ \E k \in 1 .. 4 : criteria(a)[k] < criteria(b)[k]

(***************************************************************************)
(* The positions of list that survive a round: offers that pass and that   *)
(* no other passing offer dominates.                                       *)
(***************************************************************************)
Passing(list, c) == {i \in 1 .. Len(list) : Meets(list[i], c)}

Surviving(list, c) ==
  {i \in Passing(list, c) :
     \A j \in Passing(list, c) : j # i => ~ offer_dominates(list[j], list[i])}

(***************************************************************************)
(* rank_offers sorts by total, shipping days and warranty; the sort is     *)
(* stable, so the first of equal offers stays first.                       *)
(***************************************************************************)
RanksBefore(a, b) ==
  \E k \in 1 .. 3 : /\ criteria(a)[k] < criteria(b)[k]
                    /\ \A n \in 1 .. (k - 1) : criteria(a)[n] = criteria(b)[n]

Foremost(list, S) ==
  list[CHOOSE i \in S : \A j \in S \ {i} :
         RanksBefore(list[i], list[j]) \/ (~ RanksBefore(list[j], list[i]) /\ i < j)]

-----------------------------------------------------------------------------
NegotiationInit ==
  constraints = Absent /\ status = Absent /\ rounds = << >> /\ best = Absent

\* A session is created, with constraints or without.
Open(c) ==
  /\ status = Absent
  /\ constraints' = c /\ status' = "open"
  /\ UNCHANGED << rounds, best >>

\* A sixth round, or a list too long, raises.
EvaluateRound(list) ==
  /\ status # Absent
  /\ Len(rounds) < MAX_ROUNDS
  /\ Len(list) <= MaxOffers
  /\ rounds' = Append(rounds, list)
  /\ best' = LET S == Surviving(list, constraints)
             IN IF S = {} THEN best ELSE Foremost(list, S)
  /\ UNCHANGED << constraints, status >>

AcceptBest ==
  /\ best # Absent
  /\ status' = "accepted"
  /\ UNCHANGED << constraints, rounds, best >>

\* timeout and cancel look at nothing.
TimeOut == status # Absent /\ status' = "timeout" /\ UNCHANGED << constraints, rounds, best >>

Cancel == status # Absent /\ status' = "cancelled" /\ UNCHANGED << constraints, rounds, best >>

NegotiationNext ==
  \/ \E c \in Constraints : Open(c)
  \/ \E list \in Lists : EvaluateRound(list)
  \/ AcceptBest
  \/ TimeOut
  \/ Cancel

NegotiationSpec == NegotiationInit /\ [][NegotiationNext]_negotiationVars

-----------------------------------------------------------------------------
(***************************************************************************)
(* The best offer is the best of the last round that had an acceptable     *)
(* one: it meets the constraints, and no acceptable offer of that round    *)
(* comes before it in total, shipping days, warranty and return window.    *)
(* So pruning before ranking loses nothing, and the order in which offers  *)
(* arrive decides between equal offers only.                               *)
(***************************************************************************)
Acceptable(list) == {o \in Offered(list) : Meets(o, constraints)}

ComesBefore(a, b) ==
  \E k \in 1 .. 4 : /\ criteria(a)[k] < criteria(b)[k]
                    /\ \A n \in 1 .. (k - 1) : criteria(a)[n] = criteria(b)[n]

Decisive == {r \in 1 .. Len(rounds) : Acceptable(rounds[r]) # {}}

BestIsOptimal ==
  IF Decisive = {} THEN best = Absent
  ELSE LET r == CHOOSE r \in Decisive : \A s \in Decisive : s <= r
       IN /\ best \in Acceptable(rounds[r])
          /\ \A o \in Acceptable(rounds[r]) : ~ ComesBefore(o, best)
=============================================================================
