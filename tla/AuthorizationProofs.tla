------------------------ MODULE AuthorizationProofs ------------------------
(***************************************************************************)
(* Machine-checked theorems about Authorization, for every value of its    *)
(* constants that satisfies the assumptions named there.                   *)
(***************************************************************************)
EXTENDS Authorization, FiniteSetTheorems, WellFoundedInduction, TLAPS

-----------------------------------------------------------------------------
(* The gate.                                                               *)

(***************************************************************************)
(* A gate that does not pass stops at a rule that failed, with every rule  *)
(* before it passed: the rule named in a DENY exists.                      *)
(***************************************************************************)
LEMMA FirstFailureExists ==
  ASSUME NEW in, ~ Passes(in)
  PROVE  /\ FirstFailure(in) \in Rules
         /\ ~ Predicates(in)[FirstFailure(in)]
         /\ \A s \in 1 .. (FirstFailure(in) - 1) : Predicates(in)[s]
<1> DEFINE Failed == {r \in Rules : ~ Predicates(in)[r]}
<1>1. Failed # {} /\ Failed \subseteq Nat
  BY DEF Passes, Rules
<1>2. PICK r \in Failed : \A s \in Failed : ~ (<<s, r>> \in OpToRel(<, Nat))
  <2> HIDE DEF Failed
  <2> QED BY <1>1, NatLessThanWellFounded, WFMin
<1>3. \A s \in Failed : ~ (s < r)
  BY <1>1, <1>2 DEF OpToRel
<1>4. \A s \in 1 .. (r - 1) : Predicates(in)[s]
  BY <1>3 DEF Rules
<1>5. \E q \in Rules : /\ ~ Predicates(in)[q]
                       /\ \A s \in 1 .. (q - 1) : Predicates(in)[s]
  BY <1>2, <1>4
<1> QED BY <1>5 DEF FirstFailure

(***************************************************************************)
(* What an ALLOW rests on: every predicate the gate evaluates held in the  *)
(* state the request was resolved in.                                      *)
(***************************************************************************)
LEMMA PassesMeans ==
  ASSUME NEW u, NEW r, Passes(Resolve(u, r))
  PROVE  /\ u \in users
         /\ r.mandate \in DOMAIN mandates /\ r.consent \in DOMAIN consents
         /\ Started(mandates[r.mandate].terms) /\ NotEnded(mandates[r.mandate].terms)
         /\ mandates[r.mandate].owner = r.principal
         /\ Covers(mandates[r.mandate].terms.categories, r.category)
         /\ Covers(mandates[r.mandate].terms.merchants, r.merchant)
         /\ r.amount <= Remaining(r.mandate)
         /\ consents[r.consent].mandate = r.mandate
         /\ consents[r.consent].cart = r.cart
         /\ r.nonce \notin usedNonces /\ r.key \notin usedIdempotencyKeys
<1> DEFINE in == Resolve(u, r)
<1>1. \A n \in Rules : Predicates(in)[n]
  BY DEF Passes
<1>2. /\ in.principal_active /\ in.mandate_active /\ in.mandate_owned /\ in.category_ok /\ in.has_budget
      /\ in.merchant_ok /\ in.consent_valid /\ in.consent_cart
      /\ in.nonce_unused /\ in.key_fresh
  <2> HIDE DEF in
  <2>1. /\ 3 \in Rules /\ 7 \in Rules /\ 8 \in Rules /\ 9 \in Rules /\ 10 \in Rules /\ 11 \in Rules
        /\ 13 \in Rules /\ 14 \in Rules /\ 15 \in Rules /\ 16 \in Rules
    BY DEF Rules
  <2> QED BY <1>1, <2>1 DEF Predicates
<1> QED BY <1>2 DEF Resolve

-----------------------------------------------------------------------------
(* Types.                                                                  *)

(***************************************************************************)
(* Assigning to a key of a dictionary: the entry is set, every other entry *)
(* is kept, and the dictionary keeps its type.                             *)
(***************************************************************************)
LEMMA PutEntry ==
  ASSUME NEW K, NEW V, NEW d, DOMAIN d \subseteq K, d \in [DOMAIN d -> V],
         NEW k \in K, NEW v \in V
  PROVE  /\ DOMAIN Put(d, k, v) = DOMAIN d \cup {k}
         /\ DOMAIN Put(d, k, v) \subseteq K
         /\ Put(d, k, v) \in [DOMAIN Put(d, k, v) -> V]
         /\ Put(d, k, v)[k] = v
         /\ \A x \in DOMAIN d \ {k} : Put(d, k, v)[x] = d[x]
  BY DEF Put

(***************************************************************************)
(* An ALLOW step, in terms of the records it touches.                      *)
(***************************************************************************)
LEMMA AllowEffect ==
  ASSUME TypeOK, NEW u \in Users, NEW r \in Requests, Allow(u, r)
  PROVE  /\ r \in RequestType /\ r.amount \in Nat \ {0}
         /\ r.mandate \in DOMAIN mandates
         /\ DOMAIN mandates' = DOMAIN mandates
         /\ mandates' \in [DOMAIN mandates' -> MandateType]
         /\ mandates'[r.mandate].used = mandates[r.mandate].used + r.amount
         /\ \A m \in DOMAIN mandates : /\ mandates'[m].terms = mandates[m].terms
                                       /\ mandates'[m].owner = mandates[m].owner
         /\ \A m \in DOMAIN mandates \ {r.mandate} : mandates'[m] = mandates[m]
<1>1. r \in RequestType /\ r.amount \in Nat \ {0}
  BY RequestAssumption DEF RequestType
<1>2. r.mandate \in DOMAIN mandates
  BY PassesMeans DEF Allow
<1>3. mandates[r.mandate] \in MandateType
  BY <1>2 DEF TypeOK
<1>4. mandates' = [mandates EXCEPT ![r.mandate] = [mandates[r.mandate] EXCEPT !.used = @ + r.amount]]
  BY DEF Allow
<1>5. [mandates[r.mandate] EXCEPT !.used = @ + r.amount] \in MandateType
  BY <1>1, <1>3 DEF MandateType
<1>6. /\ mandates'[r.mandate].used = mandates[r.mandate].used + r.amount
      /\ mandates'[r.mandate].terms = mandates[r.mandate].terms
      /\ mandates'[r.mandate].owner = mandates[r.mandate].owner
  BY <1>2, <1>3, <1>4 DEF TypeOK, MandateType
<1> QED BY <1>1, <1>2, <1>4, <1>5, <1>6 DEF TypeOK

(***************************************************************************)
(* TypeOK is preserved by every step.                                      *)
(***************************************************************************)
LEMMA TypeStep == TypeOK /\ [Next]_vars => TypeOK'
<1> SUFFICES ASSUME TypeOK, [Next]_vars PROVE TypeOK'
  OBVIOUS
<1>1. ASSUME NEW u \in Users, Register(u) PROVE TypeOK'
  BY <1>1 DEF Register, TypeOK
<1>2. ASSUME NEW u \in Users, NEW m \in MandateIds, NEW t \in MandateTerms, CreateMandate(u, m, t)
      PROVE  TypeOK'
  <2> DEFINE rec == [owner |-> u, status |-> "active", terms |-> t, used |-> 0]
  <2>1. rec \in MandateType
    BY DEF MandateType
  <2>2. mandates' = Put(mandates, m, rec)
    BY <1>2 DEF CreateMandate
  <2>3. DOMAIN mandates' \subseteq MandateIds /\ mandates' \in [DOMAIN mandates' -> MandateType]
    <3> HIDE DEF rec
    <3> QED BY <2>1, <2>2, PutEntry DEF TypeOK
  <2> QED BY <1>2, <2>3 DEF CreateMandate, TypeOK
<1>3. ASSUME NEW m \in MandateIds, NEW c \in ConsentIds, NEW h \in CartHashes, NEW n \in Amounts,
             CreateConsent(m, c, h, n)
      PROVE  TypeOK'
  <2> DEFINE rec == [mandate |-> m, cart |-> h, amount |-> n, status |-> "approved"]
  <2>1. rec \in ConsentType
    BY RequestAssumption DEF ConsentType, Amounts, RequestType
  <2>2. consents' = Put(consents, c, rec)
    BY <1>3 DEF CreateConsent
  <2>3. DOMAIN consents' \subseteq ConsentIds /\ consents' \in [DOMAIN consents' -> ConsentType]
    <3>1. DOMAIN consents \subseteq ConsentIds /\ consents \in [DOMAIN consents -> ConsentType]
      BY DEF TypeOK
    <3> HIDE DEF rec
    <3> QED BY <2>1, <2>2, <3>1, PutEntry
  <2> QED BY <1>3, <2>3 DEF CreateConsent, TypeOK
<1>4. ASSUME NEW u \in Users, NEW r \in Requests, Allow(u, r) PROVE TypeOK'
  <2>1. DOMAIN mandates' \subseteq MandateIds /\ mandates' \in [DOMAIN mandates' -> MandateType]
    BY <1>4, AllowEffect DEF TypeOK
  <2>2. [allowed |-> TRUE, request |-> r, by |-> u, at |-> now] \in Allowance
    BY DEF TypeOK, Allowance
  <2>3. usedNonces' \subseteq Nonces /\ usedIdempotencyKeys' \subseteq Keys
    BY <1>4, RequestAssumption DEF Allow, TypeOK, RequestType
  <2> QED BY <1>4, <2>1, <2>2, <2>3 DEF Allow, TypeOK
<1>5. ASSUME NEW u \in Users, NEW r \in Requests, Deny(u, r) PROVE TypeOK'
  <2>1. [allowed |-> FALSE, rule |-> FirstFailure(Resolve(u, r))] \in Refusal
    BY <1>5, FirstFailureExists DEF Deny, Refusal
  <2> QED BY <1>5, <2>1 DEF Deny, TypeOK
<1>6. CASE Tick
  BY <1>6 DEF Tick, memory, TypeOK
<1>7. CASE Restart
  BY <1>7 DEF Restart, NoRecords, TypeOK
<1>8. CASE UNCHANGED vars
  BY <1>8 DEF vars, memory, TypeOK
<1> QED BY <1>1, <1>2, <1>3, <1>4, <1>5, <1>6, <1>7, <1>8 DEF Next, Authorize

(***************************************************************************)
(* Type correctness of the authorization service.                          *)
(***************************************************************************)
THEOREM TypeCorrect == Spec => []TypeOK
<1>1. Init => TypeOK
  BY DEF Init, TypeOK, NoRecords
<1> QED BY <1>1, TypeStep, PTL DEF Spec

-----------------------------------------------------------------------------
(* Safety.                                                                 *)

\* Fresh ids cannot overwrite a record: whatever is stored was issued.
RecordsIssued == DOMAIN mandates \cup DOMAIN consents \subseteq issued

\* The inductive invariant.
IInv ==
  /\ TypeOK /\ RecordsIssued /\ BudgetRespected
  /\ SpentByAllowOnly /\ SpentOnce /\ AllowIsJustified

(***************************************************************************)
(* Creating a mandate preserves the invariant: the fresh record has spent  *)
(* nothing and replaces none.                                              *)
(***************************************************************************)
LEMMA CreateMandateStep ==
  ASSUME IInv, NEW u \in Users, NEW m \in MandateIds, NEW t \in MandateTerms,
         CreateMandate(u, m, t)
  PROVE  RecordsIssued' /\ BudgetRespected' /\ SpentByAllowOnly' /\ SpentOnce' /\ AllowIsJustified'
<1> DEFINE rec == [owner |-> u, status |-> "active", terms |-> t, used |-> 0]
<1>1. m \notin DOMAIN mandates
  BY DEF IInv, RecordsIssued, CreateMandate
<1>2. /\ DOMAIN mandates' = DOMAIN mandates \cup {m} /\ mandates'[m] = rec
      /\ \A x \in DOMAIN mandates : mandates'[x] = mandates[x]
  BY <1>1 DEF CreateMandate, Put
<1>3. RecordsIssued'
  BY <1>2 DEF IInv, RecordsIssued, CreateMandate
<1>4. BudgetRespected'
  BY <1>1, <1>2, TermsAssumption DEF IInv, BudgetRespected, TermType
<1>5. SpentByAllowOnly' /\ SpentOnce'
  BY DEF IInv, SpentByAllowOnly, SpentOnce, Allowances, CreateMandate
<1>6. AllowIsJustified'
  BY <1>1, <1>2 DEF IInv, AllowIsJustified, Allowances, CreateMandate
<1> QED BY <1>3, <1>4, <1>5, <1>6

(***************************************************************************)
(* Creating a consent preserves the invariant.                             *)
(***************************************************************************)
LEMMA CreateConsentStep ==
  ASSUME IInv, NEW m \in MandateIds, NEW c \in ConsentIds, NEW h, NEW n,
         CreateConsent(m, c, h, n)
  PROVE  RecordsIssued' /\ BudgetRespected' /\ SpentByAllowOnly' /\ SpentOnce' /\ AllowIsJustified'
<1>1. c \notin DOMAIN consents
  BY DEF IInv, RecordsIssued, CreateConsent
<1>2. /\ DOMAIN consents' = DOMAIN consents \cup {c}
      /\ \A x \in DOMAIN consents : consents'[x] = consents[x]
  BY <1>1 DEF CreateConsent, Put
<1>3. RecordsIssued'
  BY <1>2 DEF IInv, RecordsIssued, CreateConsent
<1>4. BudgetRespected' /\ SpentByAllowOnly' /\ SpentOnce'
  BY DEF IInv, BudgetRespected, SpentByAllowOnly, SpentOnce, Allowances, CreateConsent
<1>5. AllowIsJustified'
  BY <1>1, <1>2 DEF IInv, AllowIsJustified, Allowances, CreateConsent
<1> QED BY <1>3, <1>4, <1>5

(***************************************************************************)
(* An ALLOW preserves the invariant: the amount fits what is left, and the *)
(* nonce and the key are those of no earlier ALLOW.                        *)
(***************************************************************************)
LEMMA AllowStep ==
  ASSUME IInv, NEW u \in Users, NEW r \in Requests, Allow(u, r)
  PROVE  RecordsIssued' /\ BudgetRespected' /\ SpentByAllowOnly' /\ SpentOnce' /\ AllowIsJustified'
<1> DEFINE new == [allowed |-> TRUE, request |-> r, by |-> u, at |-> now]
<1>1. TypeOK
  BY DEF IInv
<1>2. Allowances' = Allowances \cup {new}
  BY DEF Allow, Allowances
<1>3. RecordsIssued'
  BY <1>1, AllowEffect DEF IInv, RecordsIssued, Allow
<1>4. BudgetRespected'
  <2>1. r.amount <= mandates[r.mandate].terms.max - mandates[r.mandate].used
    BY PassesMeans DEF Allow, Remaining
  <2>2. \A m \in DOMAIN mandates : mandates[m].used \in Nat /\ mandates[m].terms.max \in Nat
    BY <1>1, TermsAssumption DEF TypeOK, MandateType, TermType
  <2>3. mandates'[r.mandate].used <= mandates'[r.mandate].terms.max
    BY <1>1, <2>1, <2>2, AllowEffect
  <2> QED BY <1>1, <2>3, AllowEffect DEF IInv, BudgetRespected
<1>5. SpentByAllowOnly'
  <2>1. usedNonces' = usedNonces \cup {r.nonce} /\ usedIdempotencyKeys' = usedIdempotencyKeys \cup {r.key}
    BY DEF Allow
  <2>2. new.request = r
    OBVIOUS
  <2>3. /\ {d.request.nonce : d \in Allowances'} = {d.request.nonce : d \in Allowances} \cup {r.nonce}
        /\ {d.request.key : d \in Allowances'} = {d.request.key : d \in Allowances} \cup {r.key}
    <3> HIDE DEF new
    <3> QED BY <1>2, <2>2
  <2>4. /\ usedNonces = {d.request.nonce : d \in Allowances}
        /\ usedIdempotencyKeys = {d.request.key : d \in Allowances}
    BY DEF IInv, SpentByAllowOnly
  <2> QED BY <2>1, <2>3, <2>4 DEF SpentByAllowOnly
<1>6. SpentOnce'
  <2>1. r.nonce \notin usedNonces /\ r.key \notin usedIdempotencyKeys
    BY PassesMeans DEF Allow
  <2>2. \A d \in Allowances : d.request.nonce # r.nonce /\ d.request.key # r.key
    BY <2>1 DEF IInv, SpentByAllowOnly
  <2>3. new.request = r
    OBVIOUS
  <2> HIDE DEF new
  <2> QED BY <1>2, <2>2, <2>3 DEF IInv, SpentOnce
<1>7. AllowIsJustified'
  <2>1. \A d \in Allowances : d.request.mandate \in DOMAIN mandates
    BY DEF IInv, AllowIsJustified
  <2>2. \A d \in Allowances' \ {new} :
          LET q == d.request IN
          /\ d.by \in users'
          /\ q.mandate \in DOMAIN mandates' /\ q.consent \in DOMAIN consents'
          /\ mandates'[q.mandate].owner = q.principal
          /\ InWindow(mandates'[q.mandate].terms, d.at)
          /\ Covers(mandates'[q.mandate].terms.categories, q.category)
          /\ Covers(mandates'[q.mandate].terms.merchants, q.merchant)
          /\ consents'[q.consent].mandate = q.mandate /\ consents'[q.consent].cart = q.cart
    BY <1>1, <1>2, <2>1, AllowEffect DEF IInv, AllowIsJustified, Allow
  <2>3. /\ u \in users'
        /\ r.mandate \in DOMAIN mandates' /\ r.consent \in DOMAIN consents'
        /\ mandates'[r.mandate].owner = r.principal
        /\ InWindow(mandates'[r.mandate].terms, now)
        /\ Covers(mandates'[r.mandate].terms.categories, r.category)
        /\ Covers(mandates'[r.mandate].terms.merchants, r.merchant)
        /\ consents'[r.consent].mandate = r.mandate /\ consents'[r.consent].cart = r.cart
    <3>1. /\ mandates'[r.mandate].terms = mandates[r.mandate].terms
          /\ mandates'[r.mandate].owner = mandates[r.mandate].owner
          /\ r.mandate \in DOMAIN mandates'
      BY <1>1, AllowEffect
    <3>2. InWindow(mandates[r.mandate].terms, now)
      <4>1. Started(mandates[r.mandate].terms) /\ NotEnded(mandates[r.mandate].terms)
        BY PassesMeans DEF Allow
      <4>2. mandates[r.mandate].terms \in TermType /\ now \in Nat
        BY <1>1, <3>1, AllowEffect, TermsAssumption DEF TypeOK, MandateType
      <4> QED BY <4>1, <4>2 DEF Started, NotEnded, InWindow, TermType, Instants
    <3> QED BY <3>1, <3>2, PassesMeans DEF Allow
  <2>4. new.request = r /\ new.by = u /\ new.at = now
    OBVIOUS
  <2> HIDE DEF new
  <2> QED BY <1>2, <2>2, <2>3, <2>4 DEF AllowIsJustified
<1> QED BY <1>3, <1>4, <1>5, <1>6, <1>7

(***************************************************************************)
(* Every step preserves the invariant.                                     *)
(***************************************************************************)
LEMMA InvStep == IInv /\ [Next]_vars => IInv'
<1> SUFFICES ASSUME IInv, [Next]_vars
             PROVE  RecordsIssued' /\ BudgetRespected' /\ SpentByAllowOnly' /\ SpentOnce' /\ AllowIsJustified'
  BY TypeStep DEF IInv
<1> USE DEF IInv, RecordsIssued, BudgetRespected, SpentByAllowOnly, SpentOnce, AllowIsJustified, Allowances
<1>1. ASSUME NEW u \in Users, NEW r \in Requests, Deny(u, r)
      PROVE  RecordsIssued' /\ BudgetRespected' /\ SpentByAllowOnly' /\ SpentOnce' /\ AllowIsJustified'
  <2>1. Allowances' = Allowances
    BY <1>1 DEF Deny
  <2> QED BY <1>1, <2>1 DEF Deny
<1>2. ASSUME NEW u \in Users, Register(u)
      PROVE  RecordsIssued' /\ BudgetRespected' /\ SpentByAllowOnly' /\ SpentOnce' /\ AllowIsJustified'
  BY <1>2 DEF Register
<1>3. CASE Tick
  BY <1>3 DEF Tick, memory
<1>4. CASE Restart
  BY <1>4 DEF Restart, NoRecords
<1>5. CASE UNCHANGED vars
  BY <1>5 DEF vars, memory
<1> QED
  BY <1>1, <1>2, <1>3, <1>4, <1>5, CreateMandateStep, CreateConsentStep, AllowStep DEF Next, Authorize

(***************************************************************************)
(* The safety of the authorization service: no mandate is overspent, a     *)
(* nonce or a key authorizes once, only ALLOW decisions use them up, and   *)
(* every ALLOW has its mandate and its consent on record.                  *)
(***************************************************************************)
THEOREM Safety ==
  Spec => [](BudgetRespected /\ SpentOnce /\ SpentByAllowOnly /\ AllowIsJustified)
<1>1. Init => IInv
  BY DEF Init, IInv, TypeOK, RecordsIssued, BudgetRespected, SpentByAllowOnly, SpentOnce,
         AllowIsJustified, Allowances, NoRecords
<1>2. IInv => BudgetRespected /\ SpentOnce /\ SpentByAllowOnly /\ AllowIsJustified
  BY DEF IInv
<1> QED BY <1>1, <1>2, InvStep, PTL DEF Spec

(***************************************************************************)
(* A mandate of max_amount never pays out more (gate predicate 10).        *)
(***************************************************************************)
THEOREM NoMandateIsOverspent == Spec => []BudgetRespected
BY Safety, PTL

(***************************************************************************)
(* Two ALLOW decisions never share a nonce or an idempotency key (gate     *)
(* predicates 15 and 16).                                                  *)
(***************************************************************************)
THEOREM OncePerNonceAndKey == Spec => []SpentOnce
BY Safety, PTL

(***************************************************************************)
(* A refusal uses up neither nonce nor key: what is used, an ALLOW used.   *)
(***************************************************************************)
THEOREM RefusalsUseNothing == Spec => []SpentByAllowOnly
BY Safety, PTL

(***************************************************************************)
(* Every ALLOW was given to a user the store knows, within the window,     *)
(* categories and merchants of a mandate of the principal it names, on a   *)
(* consent of this mandate for this cart.                                  *)
(***************************************************************************)
THEOREM AllowsAreBacked == Spec => []AllowIsJustified
BY Safety, PTL

-----------------------------------------------------------------------------
(* The deductions add up.                                                  *)

\* The inductive invariant: sums are of finitely many paise.
LedgerInv == IInv /\ LedgerConserved /\ \A m \in MandateIds : IsFiniteSet(PaiseAllowed(m))

(***************************************************************************)
(* An amount has that many paise, whichever decision they belong to.       *)
(***************************************************************************)
LEMMA PaiseOfOne ==
  ASSUME NEW d, NEW n \in Nat
  PROVE  IsFiniteSet({d} \X (1 .. n)) /\ Cardinality({d} \X (1 .. n)) = n
<1> DEFINE Numbers == 1 .. n
<1>1. IsFiniteSet(Numbers) /\ Cardinality(Numbers) = n
  BY FS_Interval
<1>2. IsFiniteSet({d}) /\ Cardinality({d}) = 1
  BY FS_Singleton
<1>3. IsFiniteSet({d} \X Numbers) /\ Cardinality({d} \X Numbers) = 1 * n
  <2> HIDE DEF Numbers
  <2> QED BY <1>1, <1>2, FS_Product
<1> QED BY <1>3

(***************************************************************************)
(* The paise of an ALLOW come on top of those of the decisions before, for *)
(* its nonce is fresh and so it is none of them.                           *)
(***************************************************************************)
LEMMA AllowCharges ==
  ASSUME LedgerInv, NEW u \in Users, NEW r \in Requests, Allow(u, r)
  PROVE  /\ IsFiniteSet(PaiseAllowed(r.mandate)')
         /\ Charged(r.mandate)' = Charged(r.mandate) + r.amount
         /\ \A m \in MandateIds \ {r.mandate} : PaiseAllowed(m)' = PaiseAllowed(m)
<1> DEFINE new == [allowed |-> TRUE, request |-> r, by |-> u, at |-> now]
           Fresh == {new} \X (1 .. r.amount)
<1>1. PICK P : P = PaiseAllowed(r.mandate)
  OBVIOUS
<1>2. Allowances' = Allowances \cup {new} /\ new.request = r
  BY DEF Allow, Allowances
<1>3. new \notin Allowances
  <2>1. r.nonce \notin usedNonces
    BY PassesMeans DEF Allow
  <2> QED BY <1>2, <2>1 DEF LedgerInv, IInv, SpentByAllowOnly
<1>4. PaiseAllowed(r.mandate)' = P \cup Fresh
  <2> HIDE DEF new
  <2> QED BY <1>1, <1>2 DEF PaiseAllowed
<1>5. P \cap Fresh = {}
  <2> HIDE DEF new
  <2> QED BY <1>1, <1>3 DEF PaiseAllowed
<1>6. r.amount \in Nat /\ r.mandate \in MandateIds
  BY RequestAssumption DEF RequestType
<1>7. IsFiniteSet(Fresh) /\ Cardinality(Fresh) = r.amount
  BY <1>6, PaiseOfOne
<1>8. IsFiniteSet(P) /\ Cardinality(P) \in Nat
  BY <1>1, <1>6, FS_CardinalityType DEF LedgerInv
<1>9. IsFiniteSet(P \cup Fresh) /\ Cardinality(P \cup Fresh) = Cardinality(P) + r.amount
  <2> HIDE DEF Fresh
  <2>1. Cardinality(P \cap Fresh) = 0
    BY <1>5, FS_EmptySet
  <2>2. /\ IsFiniteSet(P \cup Fresh)
        /\ Cardinality(P \cup Fresh) = Cardinality(P) + Cardinality(Fresh) - Cardinality(P \cap Fresh)
    BY <1>7, <1>8, FS_Union, Zenon
  <2> QED BY <1>6, <1>7, <1>8, <2>1, <2>2
<1>10. \A m \in MandateIds \ {r.mandate} : PaiseAllowed(m)' = PaiseAllowed(m)
  <2> HIDE DEF new
  <2> QED BY <1>2 DEF PaiseAllowed
<1> QED BY <1>1, <1>4, <1>9, <1>10 DEF Charged

(***************************************************************************)
(* No step deducts without allowing, or allows without deducting.          *)
(***************************************************************************)
LEMMA LedgerInvStep == LedgerInv /\ [Next]_vars => LedgerInv'
<1> SUFFICES ASSUME LedgerInv, [Next]_vars
             PROVE  LedgerConserved' /\ \A m \in MandateIds : IsFiniteSet(PaiseAllowed(m)')
  BY InvStep DEF LedgerInv
<1> DEFINE Kept == \A m \in MandateIds : PaiseAllowed(m)' = PaiseAllowed(m)
           Goal == LedgerConserved' /\ \A m \in MandateIds : IsFiniteSet(PaiseAllowed(m)')
<1>0. DOMAIN mandates \subseteq MandateIds
  BY DEF LedgerInv, IInv, TypeOK
<1>1. ASSUME Kept, UNCHANGED mandates PROVE Goal
  BY <1>0, <1>1 DEF LedgerInv, LedgerConserved, Charged
<1>2. ASSUME NEW u \in Users, NEW m \in MandateIds, NEW t \in MandateTerms, CreateMandate(u, m, t)
      PROVE  Goal
  <2>1. m \notin DOMAIN mandates
    BY <1>2 DEF LedgerInv, IInv, RecordsIssued, CreateMandate
  <2>2. /\ DOMAIN mandates' = DOMAIN mandates \cup {m} /\ mandates'[m].used = 0
        /\ \A x \in DOMAIN mandates : mandates'[x] = mandates[x]
    BY <1>2, <2>1 DEF CreateMandate, Put
  <2>3. Kept
    BY <1>2 DEF CreateMandate, PaiseAllowed, Allowances
  <2>4. PaiseAllowed(m) = {}
    BY <2>1 DEF LedgerInv, IInv, AllowIsJustified, PaiseAllowed
  <2>5. Charged(m)' = 0
    BY <2>3, <2>4, FS_EmptySet DEF Charged
  <2> QED BY <1>0, <2>2, <2>3, <2>5 DEF LedgerInv, LedgerConserved, Charged
<1>3. ASSUME NEW u \in Users, NEW r \in Requests, Allow(u, r) PROVE Goal
  <2>1. /\ r.mandate \in DOMAIN mandates /\ DOMAIN mandates' = DOMAIN mandates
        /\ mandates'[r.mandate].used = mandates[r.mandate].used + r.amount
        /\ \A m \in DOMAIN mandates \ {r.mandate} : mandates'[m] = mandates[m]
    BY <1>3, AllowEffect DEF LedgerInv, IInv
  <2>2. mandates'[r.mandate].used = Charged(r.mandate)'
    BY <1>3, <2>1, AllowCharges DEF LedgerInv, LedgerConserved
  <2>3. \A m \in DOMAIN mandates \ {r.mandate} : mandates'[m].used = Charged(m)'
    BY <1>0, <1>3, <2>1, AllowCharges DEF LedgerInv, LedgerConserved, Charged
  <2>4. \A m \in MandateIds : IsFiniteSet(PaiseAllowed(m)')
    BY <1>3, AllowCharges DEF LedgerInv
  <2> QED BY <2>1, <2>2, <2>3, <2>4 DEF LedgerConserved
<1>4. ASSUME NEW u \in Users, NEW r \in Requests, Deny(u, r) PROVE Goal
  <2>1. Allowances' = Allowances
    BY <1>4 DEF Deny, Allowances
  <2> QED BY <1>1, <1>4, <2>1 DEF Deny, PaiseAllowed
<1>5. ASSUME NEW u \in Users, Register(u) PROVE Goal
  BY <1>1, <1>5 DEF Register, PaiseAllowed, Allowances
<1>6. ASSUME NEW m \in MandateIds, NEW c \in ConsentIds, NEW h \in CartHashes, NEW n \in Amounts,
             CreateConsent(m, c, h, n)
      PROVE  Goal
  BY <1>1, <1>6 DEF CreateConsent, PaiseAllowed, Allowances
<1>7. CASE Tick \/ UNCHANGED vars
  BY <1>1, <1>7 DEF Tick, vars, memory, PaiseAllowed, Allowances
<1>8. CASE Restart
  <2>1. \A m \in MandateIds : PaiseAllowed(m)' = {}
    BY <1>8 DEF Restart, PaiseAllowed, Allowances
  <2>2. DOMAIN mandates' = {}
    BY <1>8 DEF Restart, NoRecords
  <2> QED BY <2>1, <2>2, FS_EmptySet DEF LedgerConserved
<1> QED BY <1>2, <1>3, <1>4, <1>5, <1>6, <1>7, <1>8 DEF Next, Authorize

(***************************************************************************)
(* What was deducted from a mandate is what its ALLOW decisions add up to, *)
(* paisa for paisa, through denials, retries and restarts.                 *)
(***************************************************************************)
THEOREM DeductionsAddUp == Spec => []LedgerConserved
<1>1. Init => LedgerInv
  <2>1. Init => IInv
    BY DEF Init, IInv, TypeOK, RecordsIssued, BudgetRespected, SpentByAllowOnly, SpentOnce,
           AllowIsJustified, Allowances, NoRecords
  <2>2. Init => LedgerConserved /\ \A m \in MandateIds : PaiseAllowed(m) = {}
    BY DEF Init, LedgerConserved, NoRecords, PaiseAllowed, Allowances
  <2> QED BY <2>1, <2>2, FS_EmptySet DEF LedgerInv
<1>2. LedgerInv => LedgerConserved
  BY DEF LedgerInv
<1> QED BY <1>1, <1>2, LedgerInvStep, PTL DEF Spec

-----------------------------------------------------------------------------
(* Refinement.                                                             *)

(***************************************************************************)
(* The stores, seen as a ledger: limits are the mandates' max_amount,      *)
(* spendings their used_amount, redeemed tokens the used nonces.           *)
(***************************************************************************)
Limits == [m \in DOMAIN mandates |-> mandates[m].terms.max]
Spendings == [m \in DOMAIN mandates |-> mandates[m].used]

(***************************************************************************)
(* An ALLOW is a spend of the ledger.                                      *)
(***************************************************************************)
LEMMA AllowSpends ==
  ASSUME TypeOK, NEW u \in Users, NEW r \in Requests, Allow(u, r)
  PROVE  Ledger!Spend(r.mandate, r.amount, r.nonce)
<1>1. r.mandate \in DOMAIN Limits /\ r.nonce \notin usedNonces
  BY PassesMeans DEF Limits, Allow
<1>2. Spendings[r.mandate] + r.amount <= Limits[r.mandate]
  <2>1. r.amount <= mandates[r.mandate].terms.max - mandates[r.mandate].used
    BY PassesMeans DEF Allow, Remaining
  <2>2. /\ mandates[r.mandate].used \in Nat /\ mandates[r.mandate].terms.max \in Nat
        /\ r.amount \in Nat
    BY <1>1, AllowEffect, TermsAssumption DEF TypeOK, MandateType, TermType, Limits
  <2> QED BY <1>1, <2>1, <2>2 DEF Limits, Spendings
<1>3. Limits' = Limits
  BY AllowEffect DEF Limits
<1>4. Spendings' = [Spendings EXCEPT ![r.mandate] = @ + r.amount]
  BY AllowEffect DEF Spendings
<1>5. usedNonces' = usedNonces \cup {r.nonce}
  BY DEF Allow
<1> QED BY <1>1, <1>2, <1>3, <1>4, <1>5 DEF Ledger!Spend, Limits, Spendings

(***************************************************************************)
(* Every step of the service is a step of the ledger or leaves it alone.   *)
(***************************************************************************)
LEMMA LedgerStep ==
  TypeOK /\ RecordsIssued /\ [Next]_vars => [Ledger!Next]_<< Limits, Spendings, usedNonces >>
<1> SUFFICES ASSUME TypeOK, RecordsIssued, [Next]_vars
             PROVE  [Ledger!Next]_<< Limits, Spendings, usedNonces >>
  OBVIOUS
<1>1. ASSUME NEW u \in Users, NEW m \in MandateIds, NEW t \in MandateTerms, CreateMandate(u, m, t)
      PROVE  Ledger!Next
  <2>1. m \notin DOMAIN mandates
    BY <1>1 DEF CreateMandate, RecordsIssued
  <2>2. /\ DOMAIN mandates' = DOMAIN mandates \cup {m}
        /\ mandates'[m].terms = t /\ mandates'[m].used = 0
        /\ \A x \in DOMAIN mandates : mandates'[x] = mandates[x]
    BY <1>1, <2>1 DEF CreateMandate, Put
  <2>3. Limits' = Ledger!Extend(Limits, m, t.max) /\ Spendings' = Ledger!Extend(Spendings, m, 0)
    BY <2>1, <2>2 DEF Limits, Spendings, Ledger!Extend
  <2>4. Ledger!Grant(m, t.max)
    BY <1>1, <2>1, <2>3 DEF Ledger!Grant, Limits, Spendings, CreateMandate
  <2> QED BY <2>4 DEF Ledger!Next
<1>2. ASSUME NEW u \in Users, NEW r \in Requests, Allow(u, r)
      PROVE  Ledger!Next
  BY <1>2, AllowSpends, RequestAssumption DEF Ledger!Next, RequestType, Amounts
<1>3. CASE Restart
  <2>1. Limits' = Ledger!Empty /\ Spendings' = Ledger!Empty /\ usedNonces' = {}
    BY <1>3 DEF Restart, NoRecords, Limits, Spendings, Ledger!Empty
  <2> QED BY <2>1 DEF Ledger!Next, Ledger!Lose, Limits, Spendings
<1>4. ASSUME UNCHANGED << mandates, usedNonces >>
      PROVE  UNCHANGED << Limits, Spendings, usedNonces >>
  BY <1>4 DEF Limits, Spendings
<1>5. ASSUME NEW u \in Users, NEW r \in Requests, Deny(u, r)
      PROVE  UNCHANGED << mandates, usedNonces >>
  BY <1>5 DEF Deny
<1>6. ASSUME NEW u \in Users, Register(u)
      PROVE  UNCHANGED << mandates, usedNonces >>
  BY <1>6 DEF Register
<1>7. ASSUME NEW m \in MandateIds, NEW c \in ConsentIds, NEW h \in CartHashes, NEW n \in Amounts,
             CreateConsent(m, c, h, n)
      PROVE  UNCHANGED << mandates, usedNonces >>
  BY <1>7 DEF CreateConsent
<1>8. ASSUME Tick \/ UNCHANGED vars
      PROVE  UNCHANGED << mandates, usedNonces >>
  BY <1>8 DEF Tick, vars, memory
<1> QED BY <1>1, <1>2, <1>3, <1>4, <1>5, <1>6, <1>7, <1>8 DEF Next, Authorize

(***************************************************************************)
(* The authorization service implements the spending ledger.               *)
(***************************************************************************)
THEOREM Implementation == Spec => ImplementsLedger
<1>1. Init => Ledger!Init
  BY DEF Init, Ledger!Init, Ledger!Empty, NoRecords
<1>2. TypeOK /\ RecordsIssued /\ [Next]_vars => [Ledger!Next]_Ledger!vars
  BY LedgerStep DEF Ledger!vars, Limits, Spendings
<1>3. Init => IInv
  BY DEF Init, IInv, TypeOK, RecordsIssued, BudgetRespected, SpentByAllowOnly, SpentOnce,
         AllowIsJustified, Allowances, NoRecords
<1>4. IInv => TypeOK /\ RecordsIssued
  BY DEF IInv
<1> QED BY <1>1, <1>2, <1>3, <1>4, InvStep, PTL DEF Spec, ImplementsLedger, Ledger!Spec
=============================================================================
