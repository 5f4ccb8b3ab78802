-------------------------- MODULE DelegationProofs --------------------------
(***************************************************************************)
(* Delegation never escalates, for every set of mandates and authorities.  *)
(* validate_delegation compares neighbours; what a mandate permits lies    *)
(* within what its parent permits, this relation is transitive, and the    *)
(* mandates above m are among those that contain m.                        *)
(***************************************************************************)
EXTENDS Delegation, TLAPS

Typed ==
  mandates \in [DOMAIN mandates -> [grant : GrantType, used : Nat, parent : Ids \cup {None}]]

\* Covers with the part on time as an order of expiries, which is transitive.
Contains(h, g) ==
  /\ g.max <= h.max
  /\ \A c \in Categories : allowed(g.categories, c) => allowed(h.categories, c)
  /\ \A s \in Merchants : allowed(g.merchants, s) => allowed(h.merchants, s)
  /\ \A t \in Instants : expired(h, t) => expired(g, t)

ParentContains ==
  \A m \in DOMAIN mandates :
    mandates[m].parent # None =>
      /\ mandates[m].parent \in DOMAIN mandates
      /\ Contains(mandates[mandates[m].parent].grant, mandates[m].grant)

DelegationInv == Typed /\ ParentContains

-----------------------------------------------------------------------------
(***************************************************************************)
(* Every mandate permits what it permits itself.                           *)
(***************************************************************************)
LEMMA ContainsReflexive ==
  ASSUME NEW g \in GrantType
  PROVE  Contains(g, g)
BY DEF Contains, GrantType

(***************************************************************************)
(* What permits what h permits, permits what g permits within h.           *)
(***************************************************************************)
LEMMA ContainsTransitive ==
  ASSUME NEW g \in GrantType, NEW h \in GrantType, NEW k \in GrantType,
         Contains(k, h), Contains(h, g)
  PROVE  Contains(k, g)
<1>1. g.max \in Nat /\ h.max \in Nat /\ k.max \in Nat
  BY DEF GrantType
<1>2. g.max <= k.max
  BY <1>1 DEF Contains
<1> QED
  BY <1>2 DEF Contains

(***************************************************************************)
(* The check of validate_delegation suffices: a child it lets through      *)
(* permits nothing that its parent does not.                               *)
(***************************************************************************)
LEMMA ValidIsContained ==
  ASSUME Typed, NEW p \in DOMAIN mandates, NEW g \in GrantType, validate_delegation(g, p)
  PROVE  Contains(mandates[p].grant, g)
<1> DEFINE h == mandates[p].grant
<1>1. h \in GrantType /\ mandates[p].used \in Nat
  BY DEF Typed
<1>2. g.max <= h.max
  BY <1>1 DEF validate_delegation, remaining_paise, GrantType
<1>3. \A c \in Categories : allowed(g.categories, c) => allowed(h.categories, c)
  BY DEF validate_delegation, Within, allowed
<1>4. \A s \in Merchants : allowed(g.merchants, s) => allowed(h.merchants, s)
  BY DEF validate_delegation, Within, allowed
<1>5. ASSUME NEW t \in Instants, expired(h, t)
      PROVE  expired(g, t)
  <2>1. h.until # None
    BY <1>5 DEF expired
  <2>2. g.until # None /\ g.until <= h.until
    BY <2>1 DEF validate_delegation, NotOutliving
  <2>3. g.until \in Int /\ h.until \in Int /\ t \in Int
    BY <1>1, <2>1, <2>2, AmountAssumption DEF GrantType
  <2> QED
    BY <1>5, <2>2, <2>3 DEF expired
<1> QED
  BY <1>2, <1>3, <1>4, <1>5 DEF Contains

-----------------------------------------------------------------------------
(***************************************************************************)
(* A new mandate that lies within its parent, if it has one, keeps the     *)
(* invariant: it becomes nobody's parent at once.                          *)
(***************************************************************************)
LEMMA NewMandateKeepsInv ==
  ASSUME DelegationInv, NEW m \in Ids, m \notin DOMAIN mandates, NEW g \in GrantType,
         NEW p \in Ids \cup {None}, mandates' = With(m, Mandate(g, p)),
         p # None => p \in DOMAIN mandates /\ Contains(mandates[p].grant, g)
  PROVE  DelegationInv'
<1>1. DOMAIN mandates' = DOMAIN mandates \cup {m}
  BY DEF With
<1>2. \A x \in DOMAIN mandates : mandates'[x] = mandates[x]
  BY DEF With
<1>3. mandates'[m] = Mandate(g, p)
  BY DEF With
<1>4. Typed'
  <2>1. Mandate(g, p) \in [grant : GrantType, used : Nat, parent : Ids \cup {None}]
    BY DEF Mandate
  <2> QED
    BY <2>1 DEF DelegationInv, Typed, With
<1>5. ASSUME NEW x \in DOMAIN mandates', mandates'[x].parent # None
      PROVE  /\ mandates'[x].parent \in DOMAIN mandates'
             /\ Contains(mandates'[mandates'[x].parent].grant, mandates'[x].grant)
  <2>1. CASE x = m
    <3>1. mandates'[x].parent = p /\ mandates'[x].grant = g
      BY <1>3, <2>1 DEF Mandate
    <3> QED
      BY <1>1, <1>2, <1>5, <3>1
  <2>2. CASE x \in DOMAIN mandates
    BY <1>1, <1>2, <1>5, <2>2 DEF DelegationInv, ParentContains
  <2> QED
    BY <1>1, <2>1, <2>2
<1>6. ParentContains'
  BY <1>5 DEF ParentContains, Contains, allowed, expired
<1> QED
  BY <1>4, <1>6 DEF DelegationInv

(***************************************************************************)
(* Every grant, delegation and spending keeps the invariant.               *)
(***************************************************************************)
LEMMA DelegationStep == DelegationInv /\ [DelegationNext]_mandates => DelegationInv'
<1> SUFFICES ASSUME DelegationInv, [DelegationNext]_mandates
             PROVE  DelegationInv'
  OBVIOUS
<1>1. ASSUME NEW m \in Ids, NEW g \in Grants, Grant(m, g)
      PROVE  DelegationInv'
  BY <1>1, GrantAssumption, NewMandateKeepsInv DEF Grant
<1>2. ASSUME NEW p \in Ids, NEW m \in Ids, NEW g \in Grants, Delegate(p, m, g)
      PROVE  DelegationInv'
  <2>1. g \in GrantType
    BY GrantAssumption
  <2>2. Contains(mandates[p].grant, g)
    BY <1>2, <2>1, ValidIsContained DEF Delegate, DelegationInv
  <2> QED
    BY <1>2, <2>1, <2>2, NewMandateKeepsInv DEF Delegate
<1>3. ASSUME NEW m \in Ids, NEW a \in Amounts, Spend(m, a)
      PROVE  DelegationInv'
  <2>1. a \in Nat
    BY AmountAssumption
  <2>2. DOMAIN mandates' = DOMAIN mandates
    BY <1>3 DEF Spend
  <2>3. \A x \in DOMAIN mandates : /\ mandates'[x].grant = mandates[x].grant
                                   /\ mandates'[x].parent = mandates[x].parent
    BY <1>3 DEF Spend, DelegationInv, Typed
  <2>4. Typed'
    BY <1>3, <2>1 DEF Spend, DelegationInv, Typed
  <2>5. ParentContains'
    BY <2>2, <2>3 DEF DelegationInv, ParentContains, Contains, allowed, expired
  <2> QED
    BY <2>4, <2>5 DEF DelegationInv
<1>4. CASE UNCHANGED mandates
  BY <1>4 DEF DelegationInv, Typed, ParentContains, Contains, allowed, expired
<1> QED
  BY <1>1, <1>2, <1>3, <1>4 DEF DelegationNext

(***************************************************************************)
(* The mandates that contain m are closed under parents, so every ancestor *)
(* of m is one of them.                                                    *)
(***************************************************************************)
LEMMA AncestorsCover == DelegationInv => NeverEscalates
<1> SUFFICES ASSUME DelegationInv,
                    NEW m \in DOMAIN mandates, NEW a \in DOMAIN mandates, IsAncestor(a, m)
             PROVE  Covers(mandates[a].grant, mandates[m].grant)
  BY DEF NeverEscalates
<1> DEFINE S == {x \in DOMAIN mandates : Contains(mandates[x].grant, mandates[m].grant)}
<1>1. \A x \in DOMAIN mandates : mandates[x].grant \in GrantType
  BY DEF DelegationInv, Typed
<1>2. m \in S
  BY <1>1, ContainsReflexive
<1>3. ASSUME NEW x \in S, mandates[x].parent # None
      PROVE  mandates[x].parent \in S
  <2>1. /\ mandates[x].parent \in DOMAIN mandates
        /\ Contains(mandates[mandates[x].parent].grant, mandates[x].grant)
    BY <1>3 DEF DelegationInv, ParentContains
  <2> QED
    BY <1>1, <2>1, ContainsTransitive
<1> HIDE DEF S
<1>4. a \in S
  BY <1>2, <1>3 DEF IsAncestor, S
<1>5. Contains(mandates[a].grant, mandates[m].grant)
  BY <1>4 DEF S
<1> QED
  BY <1>5 DEF Contains, Covers, is_active

(***************************************************************************)
(* Whatever is granted, delegated and spent, a mandate has no budget,      *)
(* category or merchant that a mandate above it lacks, and is not active   *)
(* when one above it has expired (domain/mandate.py:48 and 112).           *)
(***************************************************************************)
THEOREM DelegationNeverEscalates == DelegationSpec => []NeverEscalates
<1>1. DelegationInit => DelegationInv
  BY DEF DelegationInit, DelegationInv, Typed, ParentContains
<1> QED
  BY <1>1, DelegationStep, AncestorsCover, PTL DEF DelegationSpec
=============================================================================
