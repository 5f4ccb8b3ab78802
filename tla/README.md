# Transactra: TLA+ models and proofs

Transactra lets AI agents spend money under a user's mandate: agents propose, and
a deterministic kernel decides, records and collects. This directory models the
parts of the repository that decide about money: what is authorized, what is
charged, what counts as paid, what evidence remains, and what an agent or a client
is shown and answered on the way there. TLC checks the models on small instances;
TLAPS proves the theorems listed below for every value of the
constants. Paths are relative to `src/`.

## The system

| Part | State | Operations | Talks to |
|---|---|---|---|
| Authorization gate `backend/kernel/authorization/gate.py` | none | `evaluate`: sixteen predicates in order, first failure denies | called by the authorization route and by replay |
| Authorization service `apps/api/routes/{auth,mandates,authorization}.py` | user, mandate, consent, agent stores; used nonces and keys; decisions | register, login, create mandate, create consent, authorize | the stores and the gate |
| Orders and payments `apps/api/routes/orders.py` | order store, `_payments`, `_evidence_chains` | create order, initiate payment, webhook, proof | Razorpay over HTTP; webhooks come back |
| Stores `apps/api/stores/` | dictionaries of the process | create, get, update | all routes |
| Lifecycle tables `backend/kernel/domain/{commerce_states,state_machine}.py` | none | `transition` | used by tests; no route calls them |
| Mandate, consent, cart, order, payment, identity, product, money, trust objects `backend/kernel/domain/` | immutable values | validation, delegation, arithmetic, trust scores | routes and tests |
| Evidence chain `backend/kernel/evidence/` | list of hash-linked records | append, verify, cart hash, audit of the decisions in a chain | orders and evidence routes, carts, tests |
| Decision replay `backend/kernel/authorization/replay.py` | none | re-evaluate the gate with overrides | tests |
| Negotiation `backend/kernel/negotiation/solver.py` | rounds, best offer, status | evaluate round, accept, time out, cancel | tests |
| Worker `apps/worker/main.py` | its own process | outbox, reconciliation and expiry sweeps | imports the routes' dictionaries |
| MCP tools `backend/mcp/registry.py`, `apps/api/routes/mcp.py`, agents `backend/kernel/domain/identity.py` | the tools, registered at the import | list, invoke, for the capabilities a caller sends | agents |
| Search and catalog `adapters/retrieval/search.py`, `apps/api/routes/catalog.py` | none: two statements on a database that merchants write meanwhile | search a page, get a product | routes |
| Razorpay adapter `adapters/payment/razorpay.py` | none | verify webhooks and checkouts | the webhook route uses its verifier |
| HTTP security, settings, application `apps/api/{security,main}.py`, `backend/config.py` | tokens; what a request carries with it | middleware, exception handler | all routes |
| Database models and migrations `db/` | declarations; only the search reads a table of theirs | | |
| Frontend `frontend/` | presentation | | API |

### Concurrency, failure and order

* **One event loop.** The memory stores are coroutines that never suspend, so a
  handler runs without interruption up to its first real await. The one handler
  that suspends between reading and writing is `initiate_payment`, which awaits the
  provider's answer (orders.py:233-251). The webhook suspends only to read its body,
  before it looks at any state.
* **Restarts.** `_init_stores` always builds memory stores (provider.py:64-80), so a
  restart of the API process loses users, mandates, consents, nonces, decisions,
  orders, payments and chains together. Bearer tokens and everything at the provider
  survive it.
* **The provider.** Attempts to pay fail any number of times before one is captured.
  A webhook is redelivered until it gets a 200, may come again after it, and webhooks
  may overtake each other. Any webhook that verifies gets a 200, matched or not.
* **The worker** is a second process: it imports modules, not the API's memory.
* **The catalog** is written while a client searches it: the count and the page are two
  statements, and a walk through the pages is many requests.
* **Middleware** runs in reverse order of registration; a layer may answer for all
  inside it, and an exception passes all of them by.

### What makes each part correct

* Authorization: a mandate is never overspent; what was deducted is what was
  allowed; a nonce or key authorizes once and a denial burns neither; an ALLOW had a
  mandate of its principal, in its window, for its category and merchant, and a
  consent for its mandate and cart.
* Payments: paid means captured by the provider; a key stands for one payment; an
  order moves along its table; every capture ends up in the evidence.
* Lifecycle tables: no trap state; what was paid is delivered or refunded, never
  merely cancelled.
* Evidence: a chain verifies exactly when append alone built it; appending to a
  damaged chain does not repair it; its head hash commits to all of it.
* Delegation: a chain of hand-overs never escalates budget, categories, merchants or
  end of validity (start and status are another matter, see below). Negotiation: the
  best offer meets the constraints and no acceptable offer of its round comes before
  it. Money: tax, discount, floor and total agree with exact arithmetic.
* Trust: a bad event never raises a score, a good one never lowers it. Replay: the
  replay differs from the original for the overrides and the fresh nonce and key only,
  and its diff names the rule that decided. Sessions: an email leads to one account,
  and a token of a forgotten account runs out.
* Worker: a payment that stays unconfirmed is flagged (it is not: finding 8).
* Search: the two filters part on lists of attributes only; the rows of a page stem from
  one catalog; a walk through the pages of a still catalog neither skips nor repeats
  where matches have different prices.
* Tools: what was listed for some capabilities is not denied to them, what was not is.
* Provider messages: where a webhook secret is configured, a state is believed only as
  the provider signed it; a checkout always.
* Carts: a consent holds for the charges and lines it was given for, up to title and
  merchant of a line, and in any order of the lines.
* Audit: what the gate decided passes and is never accused; a denial put on a rule that
  the gate did not reach is noticed.
* HTTP: replies name the request they answer and carry the security headers.

## Modules

| Module | Role |
|---|---|
| `AuthorizationGate` | the predicates, their order, the first failure |
| `Authorization` | the authorization service, one action per handler |
| `SpendingLedger` | abstract specification: grants, spends with one-time tokens, total loss |
| `MCAuthorization` | instance for TLC |
| `AuthorizationProofs` | theorems about `Authorization` |
| `CommerceStates` | the three tables and `IsStep` |
| `Lifecycle` | a cart, an order and a payment driven by the tables |
| `EvidenceChain` | append, verify, the verify route; damage to the list |
| `Delegation` | mandates handed on and spent from |
| `Negotiation` | rounds of offers, filter, dominance, ranking, ends |
| `TrustScore` | counters per merchant and the score |
| `Money` | discount, tax, line and cart total |
| `CounterfactualReplay` | overrides, the gate asked again, the diff |
| `Session` | accounts, the email index, tokens |
| `CatalogSearch` | count, page and second filter of a search, the walk through the pages |
| `MCCatalogSearch` | rows and filters for TLC |
| `ToolRegistry` | tools, listing and calling for the capabilities sent |
| `ProviderMessages` | the signatures of webhooks and checkouts, and what is taken from them |
| `CartBinding` | carts, their hash, the consents bound to them |
| `DecisionAudit` | the audit of recorded decisions; extends `CounterfactualReplay` |
| `HttpPipeline` | the way of a request through the layers of the application |
| `MCKernel` | instances of the fourteen modules above for TLC, one chosen per behaviour |
| `Worker` | the reconciliation sweep beside the API process |
| `DelegationProofs`, `EvidenceChainProofs` | theorems about those modules |
| `CartProofs` | theorems about `CartBinding` |
| `EdgeProofs` | theorems about `ToolRegistry`, `ProviderMessages` and `Session` |
| `ReplayProofs` | theorems about `CounterfactualReplay` and `DecisionAudit` |
| `KernelProofs` | theorems about `Money`, `Lifecycle`, `Negotiation`, `TrustScore`, `CatalogSearch`, `HttpPipeline` |
| `OrderPayment` | orders, payments, provider and webhooks |
| `MCOrderPayment` | instances for TLC |
| `OrderPaymentProofs` | theorems about `OrderPayment` |

`Authorization` implements `SpendingLedger` under the mapping
limit = `max_amount_paise`, spent = `used_amount_paise`, redeemed = `_used_nonces`.
`OrderPayment` and `Lifecycle` both extend `CommerceStates`: `OrderFollowsSM` holds
the handlers, which write statuses directly, against the table they never call.

### Authorization

A state holds the four stores the handlers touch (`users`, `mandates`, `consents`,
decisions), the two used sets, the clock, the ids uuid4 has drawn (`issued`) and the
users who hold a token (`tokens`, which survives `Restart`).

* `Register` is register followed by login. `CreateMandate` requires only a token, as
  the route does; after a restart the token's user is unknown and predicate 3 fails.
* `CreateConsent` has the route's three guards; the consent is approved at once.
* `Resolve` is `_resolve_predicates`: thirteen values in a record. A window bound may
  be absent or naive; comparing a naive one raises (`WindowRaises`), the request is a
  500 and nothing is recorded.
* `Allow` and `Deny` are the two outcomes of `authorize`, with all its writes.

Left out: the agent store (no route writes it, so `agent_active` is always true),
currency and mandate type (stored, compared by nothing), the trail and the snapshot
of a decision (a denial keeps the failed rule). A denial is kept once per rule it
failed on, which bounds the state without changing what any other action sees.

### OrderPayment

Whether provider keys are set (`keysConfigured`) is chosen at the start and the same
after a restart. `initiate_payment` is one action without keys (`InitiateLocally`) and two
with them: `InitiateAtProvider` makes the checks and suspends in a handler,
`ProviderAccepted` or `ProviderUnavailable` resumes it and writes
(`RecordPayment`). `payments` is a sequence because the webhook's scan takes the
first payment that matches in insertion order. The provider is external: `Attempt`
makes an attempt on anything payable and emits its webhook; `sent` only grows, so a
webhook may be delivered in any order and again. `Deliver` is the webhook handler,
split by its branches. Amounts and currency are left out: they are compared with
nothing. The signature check is in `ProviderMessages`; webhooks are genuine here, so
what is said of payments presumes a configured webhook secret. Evidence is counted per
order: a capture booked on another payment of the same order counts as booked, as it
does in the code, where the events of a chain carry the id of the payment that the
scan found. Without keys the payments are simulated and a webhook carries our own
order id, which the scan accepts as well (orders.py:352).

### The components that stand alone

They share no state, so `MCKernel` lets a behaviour choose one and leaves the others
still: their properties are checked in one run without a product of their states.

* `EvidenceChain`: `records` is the list. A digest is the tuple it was computed from
  (no collisions). `Appended` is append, `verify` the walk over the list. No code
  damages the list; `Damage` (external) does, as verify is there to notice it.
  Cutting off the end of a chain leaves a shorter chain that verifies: `HeadCommits`
  says what would have to be kept elsewhere. `record_id` and `chain_id` are compared by
  nothing but the hash and left out or kept in it.
* `Delegation`: one action each for a mandate of one's own, a hand-over that
  `validate_delegation` lets through, and an amount that `has_budget_for` allows.
  Hand-overs reduce nobody's budget, so children may together be given more than
  their parent has, which no doc excludes. `is_active` has the whole of the window and
  the status, `validate_delegation` compares the ends of two windows only.
  `NeverEscalates` therefore speaks of the end alone; see "Seen while translating".
* `Negotiation`: `Surviving` is filter and pruning by position in the list, `Foremost`
  the head of the stable sort. An offer keeps the values that are compared; the total
  is checked against its parts when an offer is made. `status` stops no operation and
  the limit of 120 seconds is enforced nowhere, which `NegotiationNext` shows.
* `TrustScore`: one action per event the route takes and one for looking. Scores are
  fractions, so that no float has to be judged; a rate may exceed one, as an order may
  be completed that was never counted, and the cut-off at one is part of the score.
* `Money`: `Price` chains the four calculations as a caller does. Decimal arithmetic
  is exact for these sizes, so the quotient is by integers and the rounding mode is
  what remains.
* `CounterfactualReplay`: extends the gate's predicates. The diff reads a rule that a
  trail did not reach as passed; that it "would have passed" (replay.py:149) is not so
  if a later rule fails too, but the diff still names the one that decided.
* `Session`: `tokens` are those not expired, and live through `Restart`, which loses the
  two dictionaries. `known` remembers when the store last knew an id. The secret is
  taken from the settings and the same after a restart.
* `CatalogSearch`: the catalog is the join that both statements read; `Write` changes a
  row at any moment. `CountFor` is the count, `ReadPage` the page, `Answer` the second
  filter (`stage3_recheck`), `Turn` a client that asks for the next page. `moments`
  remembers the catalogs there were since the request began, and the properties alone
  look at it. The value of an attribute is a list, which the statement compares by its
  elements and Python element by element. Stage 2 is a stub that keeps the rows as they
  are (search.py). The statement is taken as PostgreSQL reads it with its parameters
  filled in.
* `ToolRegistry`: `RequiredBy` is the default registry, filled at the import and never
  after. The route knows no agents: a listing and a call are judged apart, each by the
  capabilities sent with it, and nothing ties these to what a factory granted
  (`BuyerCapabilities`, `MerchantCapabilities`), so that no separation of duties can be
  said to hold at the route. A listing for no capabilities shows every tool. `Result` is
  the dispatch; what a handler returns is demonstration data and left out.
* `ProviderMessages`: a signature is the secret and the message it was made from (no
  collisions). Whatever the provider signed may come back with any body, order or
  payment. `WebhookArrives` is the head of the route: a missing signature is refused,
  the verifier is asked where `webhook_secret` is configured and not asked where it is
  empty, and what is left is the status of the order that the entity names. What
  follows is in `OrderPayment`, which takes its webhooks as genuine: the property
  proved here is why it may, where a secret is configured. No route asks for the
  signature of a checkout yet.
* `CartBinding`: `compute_cart_hash` is the canonical contents, sorted by sku with
  Python's stable sort. A cart may be priced again before and after the user answers.
  The subtotal is the caller's, right or wrong (`subtotal_error`): `Cart` compares it
  with the total only. A line keeps its title and merchant, which the hash leaves out,
  and the amount of a consent is the caller's. Currency and warranty of a cart are
  hashed too and kept fixed here. No code sets a consent to expired or consumed.
* `DecisionAudit`: a record keeps verdict, trail and the failed rule of a decision;
  `truth` remembers the inputs, which no record keeps. `Misname`, `Flip` and `CutTrail`
  (external) are the damage: to the failed rule, the verdict and the trail.
* `HttpPipeline`: one request, one action per layer and outcome. `Added` is what a
  layer adds on the way out. The exception handler is outside all layers. Settings
  are chosen with the request, the rest of them changes nothing here.

`Worker` has two dictionaries of payments, for each process imports its own. The sweep
is modelled with its parsing of `created_at`. The outbox and expiry tasks import names
that the routes no longer have, so that their loops only meet the exception handler.

## Runs

| Run | Checks | Shows |
|---|---|---|
| `authorization` | `TypeOK`, `BudgetRespected`, `LedgerConserved`, `SpentOnce`, `SpentByAllowOnly`, `AllowIsJustified`, `ImplementsLedger` | two users, two mandates whose terms differ in every limit, a consent, two carts, nonces and keys, restarts at any time |
| `kernel` | `NoTrap`, `PaidIsKept` | all combinations of the three tables |
| | `VerifyIsExact`, `AppendKeepsVerdict` | chains of four records, damaged twice: data altered, records lost, repeated or moved |
| | `NeverEscalates` | every tree of three mandates over seven authorities, one revoked and one that starts later, spending between hand-overs |
| | `BestIsOptimal` | two rounds of up to three offers in every order, with and without constraints |
| | `ScoreIsMonotone` | every sequence of events up to two of a kind |
| | `DiscountIsExact`, `TotalIsExact` | rates, floors and totals on both sides of each boundary |
| | `PlainReplayIsFaithful`, `DiffExplains` | up to two failing predicates, up to two overrides |
| | `OneAccountPerEmail`, `ForgottenRunsOut` | two emails, restarts and refreshes at any time |
| | `RecheckOnlyNarrowsAttributes`, `WalkIsComplete`, `PageIsFaithful` | three products over five rows, three filters, pages of one or two, a write anywhere in the walk |
| | `ListingAgrees` | listings and calls for the capabilities of either factory, for none, for others |
| | `ConfirmedWasAnnounced`, `CheckoutWasCompleted` | any two messages signed, brought back with any other, with and without a webhook secret |
| | `ConsentBindsCart`, `ReorderingKeepsConsent` | carts of up to two lines, two of which differ in the title only, priced again at any time; consents with and without an expiry |
| | `GateDecisionsPass`, `AuditAccusesDamage` | chains of three records, damaged twice |
| | `RepliesAreTraceable`, `AnswersAreSecured` | every request against every setting |
| `payment_provider` | `TypeOK`, `PaidMeansCaptured`, `EvidenceComplete`, `NoCaptureIsLost` | with and without provider keys: two suspended requests, two orders, a restart, duplicated and reordered webhooks |
| | `LocalKeysUnique`, `LocalOrdersFollowSM` | without provider keys, where no handler suspends |
| `payment_recorded` | `CaptureIsRecorded` | liveness under webhook redelivery |
| `consent_reuse` | `ConsentSingleUse`, violated | one consent, two ALLOWs |
| `stale_search` | `ReturnedRowsMatch`, violated | a write between the read and the answer |
| `payment_key_twice` | `PaymentKeyUnique`, violated | two requests overlap at the await |
| `status_regress` | `OrderFollowsSM`, violated | a resumed request undoes `paid` |
| `unlinked_capture` | `PaidMeansCaptured`, violated | null matches the missing id of a local-only payment |
| `late_failure` | `PaidOrderHasPaidPayment`, violated | a failure handled after the capture |
| `verify_endpoint` | `ValidChainRecordsPass`, violated | the endpoint calls every record of a valid chain broken |
| `stuck_payment` | `StuckIsFlagged`, violated | the sweep never flags a payment |

`PaymentKeyUnique` and `OrderFollowsSM` hold without provider keys (`LocalKeysUnique`,
`LocalOrdersFollowSM`) and fail with them (`payment_key_twice`, `status_regress`): the
difference is exactly the await between check and write.

**Bounds.** Two of each identifier are enough for every pairwise conflict the
properties speak of (two ALLOWs on a nonce, two payments on a key, two payments of
an order, two matches of a webhook); one consent is enough, as it may name either
mandate and either cart and none is ever consumed. `MaxDecisions = 3` lets a budget be used up and
then refused. `MaxTime = 1` puts an instant before, in and after each window used.
`MaxEvents = 4` allows a chain of creation, two initiations and a confirmation plus
a repeated delivery; `MaxRestarts = 1` puts a restart before, between and after any
steps. Ids are symmetric except the carts, which decide amount, category and
merchant. Symmetry is used with invariants and action properties; the liveness run
uses none.

In `kernel`, three mandates make a chain of two hand-overs, the least in which
neighbours and ancestors differ; two damages let one undo or hide the other; one more
round and one more offer than `MAX_ROUNDS = 2` and `MaxOffers = 3` (5 and 100 in the
code) are tried and refused; a clock of two lifetimes lets a refreshed token outlive
the first. Two failing predicates are the least in which trails stop at different
rules. Three products let a page of two be followed by another and two of one price
meet at the boundary; the rows lie on both sides of every condition of the filters,
two of them hold the same attributes in another order, and one write, before the
count, between count and page or between pages, is the least that parts them. Two
signatures are one to bring and one to bring it for. Two lines can be exchanged and
can share a sku. Two damages let the first misfit have an earlier or a later one
beside it. A request meets every combination of scheme, method, CSRF token, outcome
and id.

**Deadlock.** The authorization service can always restart and is checked for
deadlock. An order-payment instance may run out of ids, keys and webhooks, a walk
through the pages ends, and a lifecycle ends in terminal states, as do bounded lists,
counters and clocks in `kernel` and `stuck_payment`: these runs allow stopping.

**Fairness.** `FairSpec` assumes only that a webhook without a 200 is delivered again
until it gets one, which is the provider's documented retry and needs no fairness
from the process but that it answers. The liveness run excludes restarts: a restart
loses payments that no later webhook can match. `stuck_payment` assumes that time
passes and that the worker's loop goes on; a webhook need never come.

## Findings

1. **Consent is not single-use** (`consent_reuse`). `authorize` never changes the
   consent's status (authorization.py:261-269); the class promises it is consumed
   (domain/mandate.py:184-185).
2. **A search returns what no longer matches** (`stale_search`). The second filter judges
   the rows as they were read (search.py:266-287) and reads nothing again; its comment
   promises "latest data" and "ALL filters at the time of return" (search.py:256-259).
3. **A key can create two payments** (`payment_key_twice`). The lookup at
   orders.py:221 is before the await, the insertion at 286 after it.
4. **A paid order can fall back to payment_pending** (`status_regress`). orders.py:289
   writes the status without looking at it again.
5. **A capture without an order can pay a local-only order** (`unlinked_capture`).
   orders.py:352 compares a missing provider order id with a null `order_id`.
6. **A late failure unpays a captured payment but not its order** (`late_failure`).
   orders.py:374-377.
7. **The verify endpoint calls every record broken** (`verify_endpoint`).
   routes/evidence.py:130-137 hashes without the chain's id and with other separators
   than chain.py:68-76; the verdict on the whole chain beside it is right.
8. **No stuck payment is flagged** (`stuck_payment`). worker/main.py:86 imports a
   dictionary that is filled in the API process only; and `created_at`
   (orders.py:284) ends in an offset and a Z, which becomes two offsets that
   `fromisoformat` refuses (worker/main.py:102-104), silently.

### Seen while translating

Places where the code does less than a line of the repository says, without a run of
their own. Each line is quoted, and the comment of the property beside it says what
does hold.

* Principal: predicate 3 asks that the user of the token is known, and the principal is
  the one the body names (authorization.py:244); nothing compares the two, though
  README.md:54 says "Every money action has authenticated principal + active
  authority". `AllowIsJustified` ties the mandate to the principal named.
* Consent: "User approval of a specific transaction" (mandate.py:179) holds an amount
  that is compared neither with the cart nor with the request
  (authorization.py:173-180); the mandate's budget alone bounds what is charged.
* Delegation: "Delegation must NEVER escalate privileges" (mandate.py:114, and 48), but
  `validate_delegation` compares neither `valid_from` nor the status: a child may be
  active before its parent starts, or while its parent is revoked. `NeverEscalates`
  says the rest.
* Webhooks: "Signature is verified BEFORE processing any payment state changes"
  (orders.py:314), where a secret is configured; the default is none (config.py:44), and
  then the signature is only asked to be there (orders.py:333).
  `ConfirmedWasAnnounced`, and with it every property of `OrderPayment`, presumes one.
* Lifecycle: `CART_SM` has no cancel event in `consent_pending` and `payment_pending`
  although its comment says "from any non-terminal state" (commerce_states.py:38); the
  webhook takes `local_state` from `initiated` straight to `completed`, which
  `PAYMENT_LOCAL_SM` does not have.
* Decisions: decisions "stored permanently" (gate.py:72) live in the process;
  `create_order` takes any decision id, so an order may stand for no ALLOW
  (orders.py:121); children of one mandate may together be given more than it has.
* Evidence: `PAYMENT_FAILED` is never appended to a chain. The audit lets a verdict that
  was turned around, or a denial that names an earlier rule, pass, though its comment
  says "Verify the decision matches what the gate would produce" (evidence/replay.py:75):
  `AuditAccusesDamage` says what a verdict of the audit can be relied on for.
* Carts: the hash leaves out the title and the merchant of a line (hashing.py:102-112),
  though mandate.py:274 says "cart_hash changes on any modification" and hashing.py:99
  "Any change to contents/prices/merchant produces a different hash". `Cart` never
  compares its subtotal with the sum of its lines, though mandate.py:269 says "Cart total
  = sum(line_totals) + shipping_paise + tax_paise - discount_paise".
* Search: the second filter compares lists of attributes by equality, order and
  repetition included, where the statement uses containment, under the comment
  "Equivalent to JSONB @> operator" (search.py:297; so test_search.py:264): a row may be
  dropped for holding more, or the same in another order. `RecheckOnlyNarrowsAttributes`
  says that this is the only difference. A walk over products of one price may repeat or
  skip one, as the order of ties is open (search.py:207). Whether `:attrs::jsonb`
  survives SQLAlchemy's parsing of parameters was not examined.
* Tools: "List MCP tools available to an agent with given capabilities" (mcp.py:58), but
  a listing without capabilities shows every tool, each of which may then be denied;
  two handlers import modules that are not there, and answer with an error (`Broken`).
* HTTP: redirects and error replies carry no security headers, though main.py:135 says
  "every response"; what `validate_csrf` raises is swallowed in every mode.

## Proofs

Assumptions on constants are named in the modules that declare them. tlapm proves
every step.

* `AuthorizationProofs`
  * `TypeCorrect`: `TypeOK`. The lemma behind it is that a gate that does not pass has
    a first failing rule (`FirstFailureExists`, by well-foundedness of the naturals).
  * `Safety`: `BudgetRespected`, `SpentOnce`, `SpentByAllowOnly`, `AllowIsJustified`, and
    each by itself (`NoMandateIsOverspent`, `OncePerNonceAndKey`, `RefusalsUseNothing`,
    `AllowsAreBacked`). They are not inductive alone. `IInv` adds `TypeOK` and `RecordsIssued` (whatever is
    stored was issued, so a new record replaces none: without it `CreateMandate` could
    overwrite the mandate an ALLOW relied on). `SpentOnce` needs `SpentByAllowOnly`:
    the used sets remember every earlier ALLOW.
  * `DeductionsAddUp`: `LedgerConserved`. What the ALLOW decisions on a mandate charge is
    counted paisa by paisa, as the size of a set of pairs of a decision and one of its
    paise, so that a new ALLOW adds a set that is disjoint from the others and of known
    size: no sum has to be unfolded. `LedgerInv` is the equation for every mandate on
    record, beside `IInv`, from which a new mandate has no decisions yet.
  * `Implementation`: `Authorization` implements `SpendingLedger`; an ALLOW is a spend,
    a restart is the total loss, everything else stutters or grants.
* `OrderPaymentProofs`
  * `TypeCorrect`: `TypeOK`, in every mode.
  * `PaidIsCaptured`: `PaidMeansCaptured` unless the account takes unlinked payments
    (the hypothesis finding 5 shows to be necessary). `PaidInv` adds that null was never
    captured, that captured webhooks tell of captures, and that every paid order has a
    payment backed by one.
  * `AtomicMode`: `LocalKeysUnique` and `LocalOrdersFollowSM`. `AtomicInv` adds
    that no request is suspended and that an order with a payment is past `created`.
  * `KeysAreUnique`: `LocalKeysUnique`, the half about keys by itself.
  * `EvidenceIsComplete`: `EvidenceComplete`, in every mode. `EvidenceInv` adds that stored
    orders were issued (or a new order would replace a chain), that payments belong to
    stored orders, and that the order a suspended request read about is still stored
    when it resumes. The counts are compared by adding one element to each of two
    finite sets.
  * `CapturesAreKept`: `NoCaptureIsLost`, in every mode, the safety half of
    `CaptureIsRecorded`: a 200 that settles a capture of a payment is given in the step
    that confirms it. `LinkInv` adds why the webhook finds that payment and no other: a
    provider order belongs to one payment, nothing is captured that no client knows, and
    no webhook runs ahead of its capture. `NothingOwedNothingMissing` draws the
    conclusion: whenever no webhook is owed every capture is in the evidence, so all
    that is left to fairness is that webhooks are redelivered.
  * `KeysAreUniqueAlone`: `PaymentKeyUnique` in every mode where requests come one at a
    time. `AloneInv` adds that a suspended request's key has no payment yet. With
    `KeysAreUnique` it shows that finding 3 needs both an await and an overlap.
* `DelegationProofs`
  * `DelegationNeverEscalates`: `NeverEscalates`. `ValidIsContained` shows that a checked
    child lies within its parent in all that is compared, `ContainsTransitive` that this
    carries over a chain; `DelegationInv` keeps it for every neighbour, and the mandates
    that cover m are closed under parents, so that the ancestors of m are among them.
* `EvidenceChainProofs`
  * `AppendVerdict`: `AppendKeepsVerdict`, with the invariant that damage leaves a list.
  * `VerdictIsExact`: `VerifyIsExact`, for any data, length and damage. Append builds
    a chain whose every prefix is the append of the shorter one (`BuiltByAppend`); a record
    that passes verify's three comparisons is the one append would have made
    (`SoundIsAppended`). The invariant is that the list stays a list of records, whatever
    the damage.
  * `HeadCommits`: two chains that verify and have one head hash are equal, by looking
    at the last record in which they differ (well-foundedness of the naturals). It
    rests on the digest having no collisions.
* `CartProofs`
  * `ConsentsBindCarts`: `ConsentBindsCart`, and `ReorderingIsHarmless`:
    `ReorderingKeepsConsent`, for any lines, charges and number of lines. Sorting is not
    unfolded: a line's place is counted from the lines sorted in front of it (`Place`),
    the order is strict and total (`PrecedesIsOrder`), and so the places are a bijection
    (`PlacesAreTaken`). Hence sorting neither loses nor repeats a line
    (`SortedKeepsCopies`), and two lists with the same lines and distinct skus sort alike
    (`SameLinesSortAlike`). `HashBinds` says what equal hashes tell of two carts, and
    `CartInv` that a consent holds the hash of the cart it was asked for.
* `EdgeProofs`
  * `ListingsAgree`: `ListingAgrees`, for whatever capabilities are sent. The invariant
    says what a listing showed and what a call was told.
  * `WebhooksAreGenuine`: `ConfirmedWasAnnounced`, and `CheckoutsAreGenuine`:
    `CheckoutWasCompleted`, for any number of messages; signatures only grow, and a
    body is never the message of a checkout. The first is conditional on a configured
    secret, which `Trusted` is not.
  * `EmailsAreUnique`: `OneAccountPerEmail`. `ForgottenTokensEnd`: `ForgottenRunsOut`. Both
    from `SessionInv`: ids are never handed out twice, an account the store knows is known
    as of now, and a token expires at most one lifetime after its account was known.
* `ReplayProofs`
  * `PlainReplays`: `PlainReplayIsFaithful`, and `DiffsExplain`: `DiffExplains`, for all
    inputs and overrides: the first failing rule of a replay and of its original are
    compared by well-foundedness.
  * `GateDecisionsPassTheAudit`: `GateDecisionsPass`, and `AuditFinds`:
    `AuditAccusesDamage`. `AuditInv` keeps that an undamaged chain fits; what the gate made
    fits whatever happened to the records beside it (`DecisionFits`), and a whole trail
    ends at the first failure, so that no later rule is in it.
* `KernelProofs`
  * `DiscountsAreExact`: `DiscountIsExact`, and `TotalsAreExact`: `TotalIsExact`, for every
    price, rate and floor; the quotients are isolated in lemmas about division.
  * `PaidOrdersAreKept`: `PaidIsKept`, from the rows of the table.
  * `NoStateIsATrap`: `NoTrap`. A state can end if every set of states that is closed
    under the table and holds it holds a terminal one; the proof walks the tables
    backwards from the terminal states, without paths or their lengths.
  * `ScoresAreMonotone`: `ScoreIsMonotone`, for counters of any size. `StatsInv` keeps that
    nothing is delivered on time that was not delivered: without it the rate of
    timeliness could fall with a delivery on time. The four rates move one after the other
    (`RateMoves`), the weighted sum moves with each of them (`WeighedGrows`) and the
    cut-off keeps the order (`CutOffKeepsOrder`); the products of unknowns are split until
    each leaf multiplies one inequality by one positive number.
  * `RecheckNarrows`: `RecheckOnlyNarrowsAttributes`, and `PagesAreFaithful`: `PageIsFaithful`,
    for any catalog, filter, page and number of writes. `SearchInv` keeps that the
    catalog of now is among the moments and that every row read stood in one of them;
    `PageInv` that the page in hand is one of one catalog, and the total a count of one.
  * `WalksAreComplete`: `WalkIsComplete`, for any number of products, pages and page sizes.
    Products with different prices come in one order only (`OrdersAreOne`), for the n-th
    has n - 1 cheaper ones (`CheaperThan`): so all pages are pieces of one sequence. On
    such rows the second filter keeps the page as it is (`MatchesPass`, `AllKept`).
    `WalkInv` says where the walk is: the client has the order up to this page's offset.
  * `RepliesCanBeTraced`: `RepliesAreTraceable`, and `RepliesAreSecured`: `AnswersAreSecured`.
    `HttpInv` says, layer by layer, what a reply on its way out has by now.
  * `BestOffersAreOptimal`: `BestIsOptimal`, for lists and numbers of rounds of any size.
    Dominance is transitive and no offer dominates itself, so the acceptable offers of
    a finite list have one that survives; the head of the stable sort is the least
    survivor, and whatever comes before it was dominated or refused.

Every invariant and action property that a passing run checks is a theorem. Only
model-checked is `CaptureIsRecorded`: it is liveness under fairness, which the prover
does not handle; its safety half `NoCaptureIsLost` is proved. The properties that are
violated have runs and no theorems. Induction over data is beyond the prover too: where a property is about a list or a sum, the
model counts elements of finite sets instead (`Charged`, `Place`, `stage3_recheck`), for
which the library has lemmas, and states a walk over a list by its prefixes.

## Not modelled

* The outbox and expiry tasks of the worker: they import names that the routes no
  longer have, so that a sweep ends in its exception handler and changes nothing.
* Database models, migrations and sessions, and the script that seeds them: only the
  catalog routes open the database, and what they read is in `CatalogSearch`. No route
  writes it; the writers beside a search (the script, merchants, stock) are external.
* `create_order`'s decision id is stored and compared by nothing. `OrderPayment` creates
  orders freely, so that its properties hold of orders with and without a decision;
  a composition with `Authorization` would have no step in which they meet.
* The Razorpay client's order payload, password hashing, the encoding of tokens,
  conversion from and to rupees, settings, logging and other formatting.
* The list queries of the stores, users and merchants of `domain/identity.py`, and the
  expiry of agents: no running code uses them.
* The frontend: presentation only.
