--------------------------- MODULE Authorization ---------------------------
(***************************************************************************)
(* The authorization service of the API process: registration, spending    *)
(* mandates, consents and the /authorize endpoint (apps/api/routes/auth,   *)
(* mandates, authorization).  The stores are dictionaries of the process   *)
(* and none of these handlers suspends while it holds what it read, so one *)
(* handler is one action.                                                  *)
(***************************************************************************)
EXTENDS AuthorizationGate

CONSTANTS
  Users,         \* user ids
  MandateIds,    \* ids uuid4 may hand out to mandates
  ConsentIds,    \* ids uuid4 may hand out to consents
  CartHashes, Categories, Merchants, Nonces, Keys,
  MandateTerms,  \* the limits a user may ask for in a mandate
  Requests,      \* bodies of POST /authorize
  MaxTime,       \* bound on the clock
  MaxDecisions,  \* bound on the decisions kept
  NoBound,       \* an absent valid_from or valid_until
  Naive          \* a valid_from or valid_until without a time zone

Instants == Int \cup {NoBound, Naive}

TermType ==
  [ max : Nat \ {0}, categories : SUBSET Categories, merchants : SUBSET Merchants,
    from : Instants, until : Instants ]

RequestType ==
  [ principal : Users, mandate : MandateIds, consent : ConsentIds, cart : CartHashes,
    amount : Nat \ {0}, category : Categories, merchant : Merchants,
    nonce : Nonces, key : Keys ]

\* Limits and amounts are positive (Field(gt=0)); the marks are no instants.
ASSUME TermsAssumption   == MandateTerms \subseteq TermType
ASSUME RequestAssumption == Requests \subseteq RequestType
ASSUME BoundsAssumption  == MaxTime \in Nat /\ MaxDecisions \in Nat
ASSUME MarksAssumption   == NoBound \notin Int /\ Naive \notin Int /\ NoBound # Naive

VARIABLES
  now,         \* the wall clock
  tokens,      \* users that hold a bearer token; tokens outlive the process
  users,       \* user store
  mandates,    \* mandate store: id -> record
  consents,    \* consent store: id -> record
  issued,      \* ids handed out so far: uuid4 never repeats one
  usedNonces, usedIdempotencyKeys,
  decisions    \* _decisions; a denial keeps only the rule it failed on

memory == << users, mandates, consents, usedNonces, usedIdempotencyKeys, decisions >>
vars   == << now, tokens, issued, memory >>

-----------------------------------------------------------------------------
MandateType ==
  [ owner : Users, status : {"active"}, terms : MandateTerms, used : Nat ]

ConsentType ==
  [ mandate : MandateIds, cart : CartHashes, amount : Nat \ {0}, status : {"approved"} ]

\* An ALLOW keeps its request, the user of its token and its instant.
Allowance == [ allowed : {TRUE}, request : Requests, by : Users, at : Nat ]
Refusal   == [ allowed : {FALSE}, rule : Rules ]

Amounts == {r.amount : r \in Requests}

\* Mutant: key and value swapped.
PutSwapped(d, k, v) == [x \in DOMAIN d \cup {v} |-> IF x = v THEN k ELSE d[x]]

\* d[k] = v on a dictionary.
Put(d, k, v) == [x \in DOMAIN d \cup {k} |-> IF x = k THEN v ELSE d[x]]

NoRecords == [x \in {} |-> 0]

\* Mutant: compares with the limit, not with what is left of it.
RemainingOfNew(m) == mandates[m].terms.max

Remaining(m) == mandates[m].terms.max - mandates[m].used

Allowances == {d \in decisions : d.allowed}

-----------------------------------------------------------------------------
Init ==
  /\ now = 0
  /\ tokens = {} /\ issued = {} /\ users = {}
  /\ mandates = NoRecords /\ consents = NoRecords
  /\ usedNonces = {} /\ usedIdempotencyKeys = {} /\ decisions = {}

(***************************************************************************)
(* POST /auth/register, then POST /auth/login.                             *)
(***************************************************************************)
Register(u) ==
  /\ u \notin tokens
  /\ users' = users \cup {u}
  /\ tokens' = tokens \cup {u}
  /\ UNCHANGED << now, issued, mandates, consents, usedNonces, usedIdempotencyKeys, decisions >>

(***************************************************************************)
(* POST /mandates: the token's user, whether or not the user store still   *)
(* knows it, grants itself a fresh mandate.                                *)
(***************************************************************************)
CreateMandate(u, m, t) ==
  /\ u \in tokens
  /\ m \notin issued
  /\ issued' = issued \cup {m}
  /\ mandates' = Put(mandates, m, [owner |-> u, status |-> "active", terms |-> t, used |-> 0])
  /\ UNCHANGED << now, tokens, users, consents, usedNonces, usedIdempotencyKeys, decisions >>

(***************************************************************************)
(* POST /mandates/{id}/consent: 404 and 409 are the guards.  The consent   *)
(* is approved at once and has no expiry.                                  *)
(***************************************************************************)
CreateConsent(m, c, cart, amount) ==
  /\ tokens # {}
  /\ m \in DOMAIN mandates
  /\ mandates[m].status = "active"
  /\ amount <= Remaining(m)
  /\ c \notin issued
  /\ issued' = issued \cup {c}
  /\ consents' = Put(consents, c,
                     [mandate |-> m, cart |-> cart, amount |-> amount, status |-> "approved"])
  /\ UNCHANGED << now, tokens, users, mandates, usedNonces, usedIdempotencyKeys, decisions >>

-----------------------------------------------------------------------------
\* Mutant: a mandate is good for one more instant.
NotEndedYet(t) == t.until = NoBound \/ (t.until # Naive /\ t.until + 1 >= now)

\* The window test of _resolve_predicates, in the order `and' evaluates it:
\* comparing a naive datetime with the aware `now' raises, and the request
\* ends in a 500 with nothing recorded.
Started(t)    == t.from = NoBound \/ (t.from # Naive /\ t.from <= now)
NotEnded(t)   == t.until = NoBound \/ (t.until # Naive /\ t.until >= now)
WindowRaises(t) == t.from = Naive \/ (Started(t) /\ t.until = Naive)

Covers(allowed, x) == allowed = {} \/ x \in allowed

(***************************************************************************)
(* _resolve_predicates: what the stores say about request r, sent with the *)
(* token of user u.  No route stores an agent, so every agent counts as    *)
(* active; its owner and the mandate's cart hash are filled in by          *)
(* `authorize' so that rules 5 and 12 pass.                                *)
(***************************************************************************)
Resolve(u, r) ==
  LET known    == r.mandate \in DOMAIN mandates
      m        == mandates[r.mandate]
      consent  == known /\ r.consent \in DOMAIN consents
  IN [ principal_active |-> u \in users,
       agent_active     |-> TRUE,
       agent_owned      |-> TRUE,
       mandate_active   |-> known /\ m.status = "active" /\ Started(m.terms) /\ NotEnded(m.terms),
       mandate_owned    |-> known /\ m.owner = r.principal,
       category_ok      |-> known /\ Covers(m.terms.categories, r.category),
       has_budget       |-> known /\ r.amount <= Remaining(r.mandate),
       merchant_ok      |-> known /\ Covers(m.terms.merchants, r.merchant),
       cart_bound       |-> TRUE,
       consent_valid    |-> /\ consent
                            /\ consents[r.consent].status = "approved"
                            /\ consents[r.consent].mandate = r.mandate,
       consent_cart     |-> consent /\ consents[r.consent].cart = r.cart,
       nonce_unused     |-> r.nonce \notin usedNonces,
       key_fresh        |-> r.key \notin usedIdempotencyKeys ]

\* The endpoint reaches the gate; the bound on decisions is the model's.
Reaches(u, r) ==
  /\ u \in tokens
  /\ Cardinality(decisions) < MaxDecisions
  /\ r.mandate \in DOMAIN mandates => ~ WindowRaises(mandates[r.mandate].terms)

\* Mutant: the deduction is forgotten.
AllowUncharged(u, r) ==
  /\ Reaches(u, r) /\ Passes(Resolve(u, r))
  /\ usedNonces' = usedNonces \cup {r.nonce}
  /\ usedIdempotencyKeys' = usedIdempotencyKeys \cup {r.key}
  /\ decisions' = decisions \cup {[allowed |-> TRUE, request |-> r, by |-> u, at |-> now]}
  /\ UNCHANGED << now, tokens, users, mandates, consents, issued >>

(***************************************************************************)
(* POST /authorize, all sixteen predicates pass: the nonce and the key are *)
(* used up and the amount is deducted, together with the decision.         *)
(***************************************************************************)
Allow(u, r) ==
  /\ Reaches(u, r)
  /\ Passes(Resolve(u, r))
  /\ usedNonces' = usedNonces \cup {r.nonce}
  /\ usedIdempotencyKeys' = usedIdempotencyKeys \cup {r.key}
  /\ mandates' = [mandates EXCEPT ![r.mandate].used = @ + r.amount]
  /\ decisions' = decisions \cup {[allowed |-> TRUE, request |-> r, by |-> u, at |-> now]}
  /\ UNCHANGED << now, tokens, users, consents, issued >>

\* Mutant: the nonce is burnt before the gate is asked.
DenyBurning(u, r) ==
  /\ Reaches(u, r) /\ ~ Passes(Resolve(u, r))
  /\ usedNonces' = usedNonces \cup {r.nonce}
  /\ decisions' = decisions \cup {[allowed |-> FALSE, rule |-> FirstFailure(Resolve(u, r))]}
  /\ UNCHANGED << now, tokens, users, mandates, consents, issued, usedIdempotencyKeys >>

(***************************************************************************)
(* POST /authorize, some predicate fails: only the decision is recorded.   *)
(***************************************************************************)
Deny(u, r) ==
  /\ Reaches(u, r)
  /\ ~ Passes(Resolve(u, r))
  /\ decisions' = decisions \cup {[allowed |-> FALSE, rule |-> FirstFailure(Resolve(u, r))]}
  /\ UNCHANGED << now, tokens, users, mandates, consents, issued, usedNonces, usedIdempotencyKeys >>

Tick ==
  /\ now < MaxTime
  /\ now' = now + 1
  /\ UNCHANGED << tokens, issued, memory >>

\* Mutant: mandates are persisted, the nonces they were spent with are not.
RestartPartly ==
  /\ users' = {} /\ consents' = NoRecords
  /\ usedNonces' = {} /\ usedIdempotencyKeys' = {} /\ decisions' = {}
  /\ UNCHANGED << now, tokens, issued, mandates >>

(***************************************************************************)
(* The API process restarts: every store and set of the process starts     *)
(* empty (nothing is wired to the database), bearer tokens stay valid.     *)
(***************************************************************************)
Restart ==
  /\ users' = {}
  /\ mandates' = NoRecords /\ consents' = NoRecords
  /\ usedNonces' = {} /\ usedIdempotencyKeys' = {} /\ decisions' = {}
  /\ UNCHANGED << now, tokens, issued >>

Authorize == \E u \in Users, r \in Requests : Allow(u, r) \/ Deny(u, r)

Next ==
  \/ \E u \in Users : Register(u)
  \/ \E u \in Users, m \in MandateIds, t \in MandateTerms : CreateMandate(u, m, t)
  \/ \E m \in MandateIds, c \in ConsentIds, h \in CartHashes, n \in Amounts : CreateConsent(m, c, h, n)
  \/ Authorize
  \/ Tick
  \/ Restart

Spec == Init /\ [][Next]_vars

-----------------------------------------------------------------------------
(***************************************************************************)
(* Every variable keeps its type.                                          *)
(***************************************************************************)
TypeOK ==
  /\ now \in Nat
  /\ tokens \subseteq Users /\ users \subseteq tokens
  /\ issued \subseteq MandateIds \cup ConsentIds
  /\ DOMAIN mandates \subseteq MandateIds /\ DOMAIN consents \subseteq ConsentIds
  /\ mandates \in [DOMAIN mandates -> MandateType]
  /\ consents \in [DOMAIN consents -> ConsentType]
  /\ usedNonces \subseteq Nonces /\ usedIdempotencyKeys \subseteq Keys
  /\ decisions \subseteq Allowance \cup Refusal

(***************************************************************************)
(* No mandate is ever spent beyond its limit, however consents, retries,   *)
(* denials and concurrent callers interleave (predicate 10 with the        *)
(* deduction in authorize; Mandate: used_amount_paise <= max_amount_paise).*)
(***************************************************************************)
BudgetRespected == \A m \in DOMAIN mandates : mandates[m].used <= mandates[m].terms.max

(***************************************************************************)
(* The deduction on a mandate is exactly the sum of the ALLOW decisions    *)
(* recorded for it: none is lost, repeated, or charged by a denial.  The   *)
(* sum counts the paise, each of them as a pair of its decision and its    *)
(* number, so that equal amounts of two decisions stay apart.              *)
(***************************************************************************)
PaiseAllowed(m) ==
  UNION {{d} \X (1 .. d.request.amount) : d \in {a \in Allowances : a.request.mandate = m}}

Charged(m) == Cardinality(PaiseAllowed(m))

LedgerConserved == \A m \in DOMAIN mandates : mandates[m].used = Charged(m)

(***************************************************************************)
(* A nonce and an idempotency key authorize once: two different ALLOW      *)
(* decisions share neither.                                                *)
(***************************************************************************)
SpentOnce ==
  \A d, e \in Allowances :
    d.request.nonce = e.request.nonce \/ d.request.key = e.request.key => d = e

(***************************************************************************)
(* The used sets hold what ALLOW decisions used and nothing else, so that  *)
(* a client that was denied can correct its request and present the same   *)
(* nonce and key again.                                                    *)
(***************************************************************************)
SpentByAllowOnly ==
  /\ usedNonces = {d.request.nonce : d \in Allowances}
  /\ usedIdempotencyKeys = {d.request.key : d \in Allowances}

(***************************************************************************)
(* INV-06 and predicates 3 and 7 to 14: the facts an ALLOW decision was    *)
(* given for are on record together: its token belongs to a user the store *)
(* knows, its mandate is of the principal the request names, held the      *)
(* instant of the decision in its window and covers category and merchant, *)
(* and its consent is of that mandate and for that very cart.  Two things  *)
(* the code compares with nothing, and the property does not say them: the *)
(* amount of the consent with the amount of the request (predicate 13,     *)
(* authorization.py:173-180), and the user of the token with the principal *)
(* named in the body (authorization.py:244).                               *)
(***************************************************************************)
InWindow(t, at) ==
  /\ t.from = NoBound \/ t.from <= at
  /\ t.until = NoBound \/ at <= t.until

AllowIsJustified ==
  \A d \in Allowances :
    LET r == d.request IN
    /\ d.by \in users
    /\ r.mandate \in DOMAIN mandates /\ r.consent \in DOMAIN consents
    /\ mandates[r.mandate].owner = r.principal
    /\ InWindow(mandates[r.mandate].terms, d.at)
    /\ Covers(mandates[r.mandate].terms.categories, r.category)
    /\ Covers(mandates[r.mandate].terms.merchants, r.merchant)
    /\ consents[r.consent].mandate = r.mandate /\ consents[r.consent].cart = r.cart

(***************************************************************************)
(* The service implements the ledger it promises: limits never move, every *)
(* spend presents a fresh nonce and fits what is left, and a crash loses   *)
(* the whole ledger or nothing.                                            *)
(***************************************************************************)
Ledger == INSTANCE SpendingLedger WITH
  Grants   <- MandateIds,
  Tokens   <- Nonces,
  Amounts  <- Amounts \cup {t.max : t \in MandateTerms},
  limit    <- [m \in DOMAIN mandates |-> mandates[m].terms.max],
  spent    <- [m \in DOMAIN mandates |-> mandates[m].used],
  redeemed <- usedNonces

ImplementsLedger == Ledger!Spec

-----------------------------------------------------------------------------
(***************************************************************************)
(* backend/kernel/domain/mandate.py, class Consent: "Consent is single-use:*)
(* once consumed by a successful authorization, it cannot be reused."      *)
(***************************************************************************)
ConsentSingleUse ==
  \A d, e \in Allowances : d.request.consent = e.request.consent => d = e
=============================================================================
