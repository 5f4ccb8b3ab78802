----------------------------- MODULE Delegation -----------------------------
(***************************************************************************)
(* Delegated mandates (backend/kernel/domain/mandate.py): a mandate hands  *)
(* part of its authority to a child, the child to a child of its own, and  *)
(* each hand-over is decided by validate_delegation, which sees the child  *)
(* and its parent and nothing else of the chain.                           *)
(***************************************************************************)
EXTENDS Integers, FiniteSets

CONSTANTS
  Ids,                    \* mandate ids
  Categories, Merchants,
  Grants,                 \* the authorities a mandate may be given
  Amounts,                \* amounts spent
  Instants,               \* of the clock
  Statuses,               \* MandateStatus; set at construction, changed by no code
  None                    \* no restriction, no expiry, no parent

GrantType ==
  [ max : Nat \ {0}, categories : {None} \cup SUBSET Categories,
    merchants : {None} \cup SUBSET Merchants, status : Statuses,
    from : Int, until : {None} \cup Int ]

ASSUME GrantAssumption  == Grants \subseteq GrantType
ASSUME AmountAssumption == Amounts \subseteq Nat /\ Instants \subseteq Int

\* The mark of an absence is no id, instant or set.
ASSUME NoneAssumption ==
  /\ None \notin Int /\ None \notin Ids
  /\ \A S \in SUBSET Categories \cup SUBSET Merchants : S # None

VARIABLE mandates  \* id -> [grant, used, parent]

remaining_paise(m) == mandates[m].grant.max - mandates[m].used

\* Mutant: a child without a restriction is let through.
WithinUnlessAbsent(child, parent) == (parent # None /\ child # None) => child \subseteq parent

\* child's list of categories or merchants against parent's.
Within(child, parent) == parent # None => (child # None /\ child \subseteq parent)

NotOutliving(child, parent) == parent # None => (child # None /\ child <= parent)

\* The start of the window and the status are not looked at.
validate_delegation(g, p) ==
  /\ g.max <= remaining_paise(p)
  /\ Within(g.categories, mandates[p].grant.categories)
  /\ Within(g.merchants, mandates[p].grant.merchants)
  /\ NotOutliving(g.until, mandates[p].grant.until)

-----------------------------------------------------------------------------
Mandate(g, p) == [grant |-> g, used |-> 0, parent |-> p]

With(m, r) == [x \in DOMAIN mandates \cup {m} |-> IF x = m THEN r ELSE mandates[x]]

DelegationInit == mandates = [m \in {} |-> 0]

Grant(m, g) ==
  /\ m \notin DOMAIN mandates
  /\ mandates' = With(m, Mandate(g, None))

Delegate(p, m, g) ==
  /\ p \in DOMAIN mandates /\ m \notin DOMAIN mandates
  /\ validate_delegation(g, p)
  /\ mandates' = With(m, Mandate(g, p))

\* An amount the mandate has_budget_for is added to used_amount_paise.
Spend(m, a) ==
  /\ m \in DOMAIN mandates
  /\ a <= remaining_paise(m)
  /\ mandates' = [mandates EXCEPT ![m].used = @ + a]

DelegationNext ==
  \/ \E m \in Ids, g \in Grants : Grant(m, g)
  \/ \E p, m \in Ids, g \in Grants : Delegate(p, m, g)
  \/ \E m \in Ids, a \in Amounts : Spend(m, a)

DelegationSpec == DelegationInit /\ [][DelegationNext]_mandates

-----------------------------------------------------------------------------
(***************************************************************************)
(* What a mandate permits: a category, a merchant, an instant.             *)
(***************************************************************************)
allowed(restriction, x) == restriction = None \/ x \in restriction

expired(g, t) == g.until # None /\ t > g.until

is_active(g, t) == g.status = "active" /\ g.from <= t /\ ~ expired(g, t)

Covers(h, g) ==
  /\ g.max <= h.max
  /\ \A c \in Categories : allowed(g.categories, c) => allowed(h.categories, c)
  /\ \A s \in Merchants : allowed(g.merchants, s) => allowed(h.merchants, s)
  /\ \A t \in Instants : is_active(g, t) => ~ expired(h, t)

(***************************************************************************)
(* The ancestors of m, and m: what every set that has m and, with a        *)
(* mandate, its parent, contains.                                          *)
(***************************************************************************)
IsAncestor(a, m) ==
  \A S \in SUBSET DOMAIN mandates :
    (m \in S /\ \A x \in S : mandates[x].parent # None => mandates[x].parent \in S) => a \in S

(***************************************************************************)
(* Child authority against parent authority (domain/mandate.py:48 and 114, *)
(* "NEVER escalate"): budget, categories and merchants of a mandate lie    *)
(* within those of every mandate above it, and none is active when one     *)
(* above it has expired, although only neighbours were ever compared, and  *)
(* at different times.  The documentation promises more than this: a       *)
(* mandate may be active BEFORE one above it starts, or under one whose    *)
(* status forbids it, because validate_delegation compares neither.        *)
(***************************************************************************)
NeverEscalates ==
  \A m, a \in DOMAIN mandates : IsAncestor(a, m) => Covers(mandates[a].grant, mandates[m].grant)
=============================================================================
