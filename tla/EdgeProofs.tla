----------------------------- MODULE EdgeProofs -----------------------------
(***************************************************************************)
(* Machine-checked theorems about the components at the edge of the        *)
(* service: how listing and calling tools agree (ToolRegistry), which      *)
(* words of the payment provider are believed (ProviderMessages), whom an  *)
(* email and a token stand for (Session).                                  *)
(***************************************************************************)
EXTENDS ToolRegistry, ProviderMessages, Session, TLAPS

-----------------------------------------------------------------------------
(* Tools.                                                                  *)

(***************************************************************************)
(* The last listing and the last call are what the route made of the       *)
(* capabilities that came with them.                                       *)
(***************************************************************************)
RegistryInv ==
  /\ listed = NoListing \/ listed.tools = list_tools(listed.caps)
  /\ called = NoCall \/ (called.result = "denied" <=> ~ verify_access(called.tool, called.caps))

LEMMA RegistryStart == RegistryInit => RegistryInv
BY DEF RegistryInit, RegistryInv

LEMMA RegistryStep == RegistryInv /\ [RegistryNext]_registryVars => RegistryInv'
<1> SUFFICES ASSUME RegistryInv, [RegistryNext]_registryVars
             PROVE  RegistryInv'
  OBVIOUS
<1>1. ASSUME NEW caps \in SentCapabilities, ListTools(caps)
      PROVE  RegistryInv'
  BY <1>1 DEF ListTools, RegistryInv
<1>2. ASSUME NEW caps \in SentCapabilities, NEW n \in DOMAIN tools \cup {"unknown"},
             NEW fit \in BOOLEAN, InvokeTool(caps, n, fit)
      PROVE  RegistryInv'
  <2>1. Result(n, caps, fit) = "denied" <=> ~ verify_access(n, caps)
    BY DEF Result
  <2> QED BY <1>2, <2>1 DEF InvokeTool, RegistryInv
<1>3. CASE UNCHANGED registryVars
  BY <1>3 DEF registryVars, RegistryInv
<1> QED BY <1>1, <1>2, <1>3 DEF RegistryNext

(***************************************************************************)
(* For a client that names capabilities, what it is shown and what it is   *)
(* denied agree (mcp.py:64-69, 105).                                       *)
(***************************************************************************)
THEOREM ListingsAgree == RegistrySpec => []ListingAgrees
<1>1. RegistryInv => ListingAgrees
  <2> SUFFICES ASSUME RegistryInv, listed.caps # {}, called # NoCall
               PROVE  /\ (called.tool \in listed.tools /\ listed.caps \subseteq called.caps)
                           => called.result # "denied"
                      /\ (called.tool \notin listed.tools /\ called.caps \subseteq listed.caps)
                           => called.result = "denied"
    BY DEF ListingAgrees
  <2>1. listed.tools = {n \in DOMAIN tools : tools[n] \subseteq listed.caps}
    BY DEF RegistryInv, NoListing, list_tools, list_for_agent, has_access
  <2>2. called.result = "denied"
          <=> ~ (called.tool \in DOMAIN tools /\ tools[called.tool] \subseteq called.caps)
    BY DEF RegistryInv, verify_access, has_access
  <2> QED BY <2>1, <2>2
<1> QED BY <1>1, RegistryStart, RegistryStep, PTL DEF RegistrySpec

-----------------------------------------------------------------------------
(* The provider's words.                                                   *)

(***************************************************************************)
(* The setting is not changed at run time; where there is one, a status is *)
(* taken over only from a body that carries its own signature.             *)
(***************************************************************************)
AnnouncedInv == webhook_secret \in {WebhookSecret, Nothing} /\ ConfirmedWasAnnounced

LEMMA AnnouncedStep == AnnouncedInv /\ [MessagesNext]_messageVars => AnnouncedInv'
<1> SUFFICES ASSUME AnnouncedInv, [MessagesNext]_messageVars
             PROVE  AnnouncedInv'
  OBVIOUS
<1>1. ASSUME NEW e \in Entity \cup {Nothing}, NEW sig \in Brought, WebhookArrives(e, sig)
      PROVE  AnnouncedInv'
  <2>1. e \in Entity /\ e = [order_id |-> e.order_id, status |-> e.status]
    BY <1>1 DEF WebhookArrives, Entity
  <2>2. confirmed' = confirmed \cup {[order |-> e.order_id, state |-> e.status]}
        /\ signatures' = signatures /\ webhook_secret' = webhook_secret
    BY <1>1 DEF WebhookArrives
  <2>3. CASE webhook_secret = WebhookSecret
    <3>1. sig = Hmac(WebhookSecret, Body(e)) /\ sig # Nothing
      BY <1>1, <2>3, NothingAssumption DEF WebhookArrives, Trusted, verify_webhook_signature
    <3>2. sig # Hmac(Nothing, Nothing)
      BY <3>1, NothingAssumption DEF Hmac
    <3>3. Hmac(WebhookSecret, Body([order_id |-> e.order_id, status |-> e.status])) \in signatures
      BY <2>1, <3>1, <3>2 DEF Brought
    <3> QED BY <2>2, <3>3 DEF AnnouncedInv, ConfirmedWasAnnounced
  <2>4. CASE webhook_secret = Nothing
    BY <2>2, <2>4 DEF AnnouncedInv, ConfirmedWasAnnounced
  <2> QED BY <2>3, <2>4 DEF AnnouncedInv
<1>2. ASSUME signatures \subseteq signatures', confirmed' = confirmed, webhook_secret' = webhook_secret
      PROVE  AnnouncedInv'
  BY <1>2 DEF AnnouncedInv, ConfirmedWasAnnounced
<1>3. ASSUME NEW sig, Signs(sig)
      PROVE  AnnouncedInv'
  BY <1>2, <1>3 DEF Signs
<1>4. ASSUME NEW o \in ProviderOrders, NEW p \in ProviderPayments, NEW sig \in Brought,
             CheckoutReturns(o, p, sig)
      PROVE  AnnouncedInv'
  BY <1>2, <1>4 DEF CheckoutReturns
<1>5. CASE UNCHANGED messageVars
  BY <1>2, <1>5 DEF messageVars
<1> QED BY <1>1, <1>3, <1>4, <1>5 DEF MessagesNext

(***************************************************************************)
(* A checkout is believed only with the signature of this very pair.       *)
(***************************************************************************)
LEMMA CompletedStep ==
  CheckoutWasCompleted /\ [MessagesNext]_messageVars => CheckoutWasCompleted'
<1> SUFFICES ASSUME CheckoutWasCompleted, [MessagesNext]_messageVars
             PROVE  CheckoutWasCompleted'
  OBVIOUS
<1>1. ASSUME NEW o \in ProviderOrders, NEW p \in ProviderPayments,
             NEW sig \in Brought, CheckoutReturns(o, p, sig)
      PROVE  CheckoutWasCompleted'
  <2>1. sig = Hmac(KeySecret, Checkout(o, p)) /\ sig # Nothing
    BY <1>1 DEF CheckoutReturns, verify_checkout
  <2>2. sig # Hmac(Nothing, Nothing)
    BY <2>1, NothingAssumption DEF Hmac
  <2>3. Hmac(KeySecret, Checkout(o, p)) \in signatures
    BY <2>1, <2>2 DEF Brought
  <2> QED BY <1>1, <2>3 DEF CheckoutReturns, CheckoutWasCompleted
<1>2. ASSUME signatures \subseteq signatures', returned' = returned
      PROVE  CheckoutWasCompleted'
  BY <1>2 DEF CheckoutWasCompleted
<1>3. ASSUME NEW sig, Signs(sig)
      PROVE  signatures \subseteq signatures' /\ returned' = returned
  BY <1>3 DEF Signs
<1>4. ASSUME NEW e \in Entity \cup {Nothing}, NEW sig \in Brought,
             WebhookArrives(e, sig)
      PROVE  signatures \subseteq signatures' /\ returned' = returned
  BY <1>4 DEF WebhookArrives
<1>5. CASE UNCHANGED messageVars
  BY <1>2, <1>5 DEF messageVars
<1> QED BY <1>1, <1>2, <1>3, <1>4, <1>5 DEF MessagesNext

(***************************************************************************)
(* README invariant 9 where a webhook secret is configured: every status   *)
(* taken from a webhook was announced by the provider for this order.      *)
(***************************************************************************)
THEOREM WebhooksAreGenuine == MessagesSpec => []ConfirmedWasAnnounced
<1>1. MessagesInit => AnnouncedInv
  BY DEF MessagesInit, AnnouncedInv, ConfirmedWasAnnounced
<1>2. AnnouncedInv => ConfirmedWasAnnounced
  BY DEF AnnouncedInv
<1> QED BY <1>1, <1>2, AnnouncedStep, PTL DEF MessagesSpec

(***************************************************************************)
(* Every checkout that is believed joins what the provider joined.         *)
(***************************************************************************)
THEOREM CheckoutsAreGenuine == MessagesSpec => []CheckoutWasCompleted
<1>1. MessagesInit => CheckoutWasCompleted
  BY DEF MessagesInit, CheckoutWasCompleted
<1> QED BY <1>1, CompletedStep, PTL DEF MessagesSpec

-----------------------------------------------------------------------------
(* Accounts and tokens.                                                    *)

(***************************************************************************)
(* What makes both properties inductive: the store knows its users as of   *)
(* now, ids are never handed out twice, and every token, accepted or not,  *)
(* ends within a lifetime of the last instant its user was known.          *)
(***************************************************************************)
KnownAsOfNow ==
  /\ DOMAIN data \subseteq DOMAIN known /\ DOMAIN known \subseteq issued
  /\ \A u \in DOMAIN known : known[u] \in Nat
  /\ \A u \in DOMAIN data : known[u] = now

TokensRunOut ==
  \A t \in tokens : t.sub \in DOMAIN known /\ t.exp \in Nat /\ t.exp <= known[t.sub] + Lifetime

SessionInv == now \in Nat /\ KnownAsOfNow /\ TokensRunOut /\ OneAccountPerEmail

(***************************************************************************)
(* A registration under a free email, with an id never handed out, leads   *)
(* no other account astray.                                                *)
(***************************************************************************)
LEMMA RegisterKeepsInv ==
  ASSUME SessionInv, NEW e, NEW u, Register(e, u)
  PROVE  SessionInv'
<1>1. u \notin DOMAIN known /\ u \notin DOMAIN data
  BY DEF SessionInv, KnownAsOfNow, Register
<1>2. /\ DOMAIN data' = DOMAIN data \cup {u} /\ data'[u] = e
      /\ \A x \in DOMAIN data : data'[x] = data[x]
  BY <1>1 DEF Register, Stored
<1>3. /\ DOMAIN known' = DOMAIN known \cup {u} /\ known'[u] = now
      /\ \A x \in DOMAIN known : known'[x] = known[x]
  BY <1>1 DEF Register, Stored
<1>4. /\ DOMAIN email_index' = DOMAIN email_index \cup {e} /\ email_index'[e] = u
      /\ \A x \in DOMAIN email_index : x # e => email_index'[x] = email_index[x]
  BY DEF Register, Stored
<1>5. \A v \in DOMAIN data : data[v] # e
  BY DEF SessionInv, OneAccountPerEmail, Register, get_by_email
<1>6. now' = now /\ tokens' = tokens /\ issued' = issued \cup {u}
  BY DEF Register
<1>7. OneAccountPerEmail'
  BY <1>2, <1>4, <1>5 DEF SessionInv, OneAccountPerEmail
<1>8. KnownAsOfNow'
  BY <1>2, <1>3, <1>6 DEF SessionInv, KnownAsOfNow
<1>9. TokensRunOut'
  BY <1>3, <1>6 DEF SessionInv, TokensRunOut
<1> QED BY <1>6, <1>7, <1>8, <1>9 DEF SessionInv

(***************************************************************************)
(* A token made now, for a user the store knows now, is good for one       *)
(* lifetime from now.                                                      *)
(***************************************************************************)
LEMMA NewTokenKeepsInv ==
  ASSUME SessionInv, NEW u \in DOMAIN data, create_access_token(u),
         UNCHANGED << now, data, email_index, issued, known >>
  PROVE  SessionInv'
<1>1. u \in DOMAIN known /\ known[u] = now
  BY DEF SessionInv, KnownAsOfNow
<1>2. now + Lifetime \in Nat
  BY TimeAssumption DEF SessionInv
<1>3. TokensRunOut'
  BY <1>1, <1>2 DEF SessionInv, TokensRunOut, create_access_token
<1> QED BY <1>3 DEF SessionInv, KnownAsOfNow, OneAccountPerEmail

LEMMA SessionStep == SessionInv /\ [SessionNext]_sessionVars => SessionInv'
<1> SUFFICES ASSUME SessionInv, [SessionNext]_sessionVars
             PROVE  SessionInv'
  OBVIOUS
<1>1. ASSUME NEW e \in Emails, NEW u \in UserIds, Register(e, u)
      PROVE  SessionInv'
  BY <1>1, RegisterKeepsInv
<1>2. ASSUME NEW e \in Emails, Login(e)
      PROVE  SessionInv'
  BY <1>2, NewTokenKeepsInv DEF Login, get_by_email
<1>3. ASSUME NEW t \in tokens, Refresh(t)
      PROVE  SessionInv'
  BY <1>3, NewTokenKeepsInv DEF Refresh
<1>4. CASE Tick
  <2>1. /\ now' \in Nat /\ now' = now + 1
        /\ DOMAIN known' = DOMAIN known
        /\ \A u \in DOMAIN known : known'[u] = IF u \in DOMAIN data THEN now' ELSE known[u]
    BY <1>4 DEF Tick, SessionInv
  <2>2. \A u \in DOMAIN known : known'[u] \in Nat /\ known[u] <= known'[u]
    BY <2>1 DEF SessionInv, KnownAsOfNow
  <2>3. KnownAsOfNow'
    BY <1>4, <2>1, <2>2 DEF Tick, SessionInv, KnownAsOfNow
  <2>4. \A t \in tokens' : t \in tokens
    BY <1>4 DEF Tick
  <2>5. TokensRunOut'
    BY <2>1, <2>2, <2>4, TimeAssumption DEF SessionInv, KnownAsOfNow, TokensRunOut
  <2>6. OneAccountPerEmail'
    BY <1>4 DEF Tick, SessionInv, OneAccountPerEmail
  <2> QED BY <2>1, <2>3, <2>5, <2>6 DEF SessionInv
<1>5. CASE Restart
  BY <1>5 DEF Restart, NoAccounts, SessionInv, KnownAsOfNow, TokensRunOut, OneAccountPerEmail
<1>6. CASE UNCHANGED sessionVars
  BY <1>6 DEF sessionVars, SessionInv, KnownAsOfNow, TokensRunOut, OneAccountPerEmail
<1> QED BY <1>1, <1>2, <1>3, <1>4, <1>5, <1>6 DEF SessionNext

LEMMA SessionStart == SessionInit => SessionInv
BY DEF SessionInit, NoAccounts, SessionInv, KnownAsOfNow, TokensRunOut, OneAccountPerEmail

(***************************************************************************)
(* An email leads to the one account that has it, across registrations,    *)
(* old tokens and restarts (memory.py:104-118, auth.py:83-133).            *)
(***************************************************************************)
THEOREM EmailsAreUnique == SessionSpec => []OneAccountPerEmail
<1>1. SessionInv => OneAccountPerEmail
  BY DEF SessionInv
<1> QED BY <1>1, SessionStart, SessionStep, PTL DEF SessionSpec

(***************************************************************************)
(* The tokens of a forgotten account run out one lifetime after the store  *)
(* last knew it, however often they were refreshed (auth.py:199-242).      *)
(***************************************************************************)
THEOREM ForgottenTokensEnd == SessionSpec => []ForgottenRunsOut
<1>1. SessionInv => ForgottenRunsOut
  BY DEF SessionInv, TokensRunOut, ForgottenRunsOut
<1> QED BY <1>1, SessionStart, SessionStep, PTL DEF SessionSpec
=============================================================================
