------------------------------ MODULE MCKernel ------------------------------
(***************************************************************************)
(* Small instances of the components that share no state with each other,  *)
(* for one run of TLC: a behaviour picks a component and runs it alone.    *)
(***************************************************************************)
EXTENDS Lifecycle, EvidenceChain, Delegation, Negotiation, TrustScore, Money,
        CounterfactualReplay, Session, MCCatalogSearch, ToolRegistry, ProviderMessages,
        CartBinding, DecisionAudit, HttpPipeline

CONSTANTS d1, d2, d3

VARIABLE component

MCIds == {d1, d2, d3}

MCGrant(max, cats, shops, until) ==
  [ max |-> max, categories |-> cats, merchants |-> shops, status |-> "active",
    from |-> 0, until |-> until ]

\* Limits on either side of each other; one revoked, one that starts later.
MCGrants ==
  { MCGrant(2, None, None, None), MCGrant(2, {"books"}, None, 1), MCGrant(1, {"books"}, {"shop"}, 1),
    MCGrant(1, None, {"shop"}, 0), MCGrant(1, {}, {"shop"}, None),
    [MCGrant(2, None, None, None) EXCEPT !.status = "revoked"],
    [MCGrant(2, None, None, None) EXCEPT !.from = 1] }

MCOffer(total, days, warranty, window, returnable) ==
  [ total |-> total, shipping_days |-> days, warranty |-> warranty, window |-> window,
    returnable |-> returnable ]

MCOffers ==
  { MCOffer(1, 2, 0, 0, TRUE), MCOffer(1, 2, 0, 1, TRUE), MCOffer(1, 1, 0, 0, FALSE),
    MCOffer(2, 1, 1, 1, TRUE), MCOffer(3, 1, 1, 1, TRUE) }

\* Every list of up to two offers, every order of three, and one too long.
MCLists ==
  UNION {[1 .. n -> MCOffers] : n \in 0 .. 2}
    \cup {s \in [1 .. 3 -> MCOffers] : s[1] # s[2] /\ s[2] # s[3] /\ s[1] # s[3]}
    \cup {[i \in 1 .. 4 |-> MCOffer(1, 2, 0, 0, TRUE)]}

MCConstraints ==
  { Absent, [ max_total |-> 2, min_warranty |-> 0, max_shipping_days |-> 2,
              require_returnable |-> TRUE, min_window |-> 0 ] }

\* Rates and floors on both sides of every boundary.
MCAsks ==
  [ unit_price : {1, 99, 100}, quantity : {1, 3}, discount_rate : {0, 50, 500, 9999, 12000},
    floor : {0, 100, 297}, tax_rate : {0, 500, 1800}, shipping : {0, 1}, cart_discount : {0, 150} ]

\* Up to two predicates fail, up to two inputs are turned around.
MCInputs == {[n \in InputNames |-> n \notin F] : F \in {F \in SUBSET InputNames : Cardinality(F) <= 2}}

MCOverrides == {F \in SUBSET (InputNames \ FreshNames) : Cardinality(F) <= 2}

\* Capabilities of both factories, none, and one that is nobody's.
MCSent == {{}, BuyerCapabilities, MerchantCapabilities, {"search", "other"}}

\* Lines that differ in one field, two of them with one sku and one in its
\* title only; charges that make two subtotals meet, and a discount above some
\* of the totals.
MCLine(product, title, sku, discount) ==
  [ product |-> product, merchant |-> "shop", title |-> title, sku |-> sku, quantity |-> 1,
    unit |-> 3, discount |-> discount ]

MCLines ==
  { MCLine("pen", "blue", 1, 0), MCLine("pen", "red", 1, 0),
    MCLine("ink", "red", 2, 1), MCLine("ink", "red", 2, 2) }

MCCharge(shipping, tax, discount, error) ==
  [shipping |-> shipping, tax |-> tax, discount |-> discount, subtotal_error |-> error]

MCCharges == {MCCharge(0, 0, 0, 0), MCCharge(0, 0, 0, 1), MCCharge(1, 1, 4, 0)}

MCTerms == {0, NoExpiry}

\* Decisions that pass, and that fail early, in the middle or at the last rule.
MCRecorded ==
  { [n \in InputNames |-> n \notin F] :
      F \in {{}, {"principal_active"}, {"has_budget", "nonce_unused"}, {"key_fresh"}} }

MCCalls ==
  [ id : {"none", "given"}, scheme : {"http", "https"}, method : {"GET", "POST", "OPTIONS"},
    csrf_ok : BOOLEAN, outcome : {"ok", "refused", "raises"} ]

-----------------------------------------------------------------------------
MCInit ==
  /\ component \in { "lifecycle", "chain", "delegation", "negotiation", "trust", "money", "replay",
                     "session", "search", "registry", "messages", "cart", "audit", "http" }
  /\ LifecycleInit /\ ChainInit /\ DelegationInit /\ NegotiationInit
  /\ TrustInit /\ MoneyInit /\ ReplayInit /\ SessionInit
  /\ SearchInit /\ RegistryInit /\ MessagesInit /\ CartInit /\ AuditInit /\ HttpInit
  /\ component = "messages" \/ webhook_secret = Nothing

\* Component c moves; it alone does.
Alone(c) ==
  /\ component = c /\ component' = c
  /\ IF c = "lifecycle" THEN TRUE ELSE UNCHANGED lifecycleVars
  /\ IF c = "chain" THEN TRUE ELSE UNCHANGED chainVars
  /\ IF c = "delegation" THEN TRUE ELSE UNCHANGED mandates
  /\ IF c = "negotiation" THEN TRUE ELSE UNCHANGED negotiationVars
  /\ IF c = "trust" THEN TRUE ELSE UNCHANGED stats
  /\ IF c = "money" THEN TRUE ELSE UNCHANGED moneyVars
  /\ IF c = "replay" THEN TRUE ELSE UNCHANGED replayVars
  /\ IF c = "session" THEN TRUE ELSE UNCHANGED sessionVars
  /\ IF c = "search" THEN TRUE ELSE UNCHANGED searchVars
  /\ IF c = "registry" THEN TRUE ELSE UNCHANGED registryVars
  /\ IF c = "messages" THEN TRUE ELSE UNCHANGED messageVars
  /\ IF c = "cart" THEN TRUE ELSE UNCHANGED cartVars
  /\ IF c = "audit" THEN TRUE ELSE UNCHANGED auditVars
  /\ IF c = "http" THEN TRUE ELSE UNCHANGED httpVars

LifecycleAlone == Alone("lifecycle") /\ LifecycleNext
ChainAlone == Alone("chain") /\ ChainNext
DelegationAlone == Alone("delegation") /\ DelegationNext
NegotiationAlone == Alone("negotiation") /\ NegotiationNext
TrustAlone == Alone("trust") /\ TrustNext
MoneyAlone == Alone("money") /\ MoneyNext
ReplayAlone == Alone("replay") /\ ReplayNext
SessionAlone == Alone("session") /\ SessionNext
SearchAlone == Alone("search") /\ SearchNext
RegistryAlone == Alone("registry") /\ RegistryNext
MessagesAlone == Alone("messages") /\ MessagesNext
CartAlone == Alone("cart") /\ CartNext
AuditAlone == Alone("audit") /\ AuditNext
HttpAlone == Alone("http") /\ HttpNext

MCNext ==
  \/ LifecycleAlone \/ ChainAlone \/ DelegationAlone \/ NegotiationAlone
  \/ TrustAlone \/ MoneyAlone \/ ReplayAlone \/ SessionAlone
  \/ SearchAlone \/ RegistryAlone \/ MessagesAlone \/ CartAlone \/ AuditAlone \/ HttpAlone

MCSpec ==
  MCInit /\ [][MCNext]_<< component, lifecycleVars, chainVars, mandates, negotiationVars, stats,
                         moneyVars, replayVars, sessionVars, searchVars, registryVars, messageVars,
                         cartVars, auditVars, httpVars >>

=============================================================================
