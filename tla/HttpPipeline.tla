---------------------------- MODULE HttpPipeline ----------------------------
(***************************************************************************)
(* The way of a request through the middleware of apps/api/main.py: each   *)
(* layer passes it inward or answers itself, a reply goes back outward     *)
(* through the layers it has passed, and an exception of a route goes past *)
(* all of them to the handler at the very outside.                         *)
(***************************************************************************)
EXTENDS Integers, Sequences

CONSTANTS
  Calls,        \* requests: [id, scheme, method, csrf_ok, outcome]
  FreshId       \* the id uuid4 draws for a request that brings none

CallType ==
  [ id : STRING, scheme : {"http", "https"}, method : {"GET", "POST", "OPTIONS"},
    csrf_ok : BOOLEAN, outcome : {"ok", "refused", "raises"} ]

ASSUME CallAssumption == Calls \subseteq CallType /\ FreshId \in STRING

VARIABLES
  call,       \* the request under way
  settings,   \* enforce_https, and whether app_env is production
  layer,      \* the layer it is at, 0 outside all of them
  way,        \* "in", "out" or "done"
  state_id,   \* request.state.correlation_id, "unknown" until it is set
  reply       \* the response so far

httpVars == << call, settings, layer, way, state_id, reply >>

\* Mutant: the headers are added further inside than requests are cut short.
Layers_HeadersInside == << "https", "timing", "correlation", "cors", "security", "route" >>

\* The layer added last is the outermost.
Layers == << "https", "security", "timing", "correlation", "cors", "route" >>

At(l) == way = "in" /\ layer \in DOMAIN Layers /\ Layers[layer] = l

SecurityHeaders == {"nosniff", "frame", "xss", "referrer", "permissions", "cache"}

NoReply == [kind |-> "none", headers |-> {}, id |-> "none"]

SafeMethods == {"GET", "HEAD", "OPTIONS"}

-----------------------------------------------------------------------------
Waiting == [method |-> "none"]

HttpInit ==
  /\ call = Waiting /\ settings = [enforce_https |-> FALSE, production |-> FALSE]
  /\ layer = 0 /\ way = "done" /\ state_id = "unknown" /\ reply = NoReply

\* A behaviour follows one request: what a layer keeps of it, it keeps with the
\* request.
Enters(c, s) ==
  /\ way = "done" /\ reply = NoReply
  /\ settings' = s
  /\ call' = c /\ layer' = 1 /\ way' = "in" /\ state_id' = "unknown"
  /\ UNCHANGED reply

Inward == layer' = layer + 1 /\ UNCHANGED << call, settings, way, reply >>

Answers(kind) ==
  /\ reply' = [NoReply EXCEPT !.kind = kind]
  /\ way' = "out" /\ layer' = layer - 1
  /\ UNCHANGED << call, settings, state_id >>

\* https_redirect_middleware: a 301 where https is enforced.
InsecurelyAsked == settings.enforce_https /\ call.scheme = "http"

Redirects   == At("https") /\ InsecurelyAsked /\ Answers("redirect")
PassesHttps == At("https") /\ ~ InsecurelyAsked /\ Inward /\ UNCHANGED state_id

\* security_headers_middleware: what validate_csrf raises is swallowed.
csrf_raises == call.method \notin SafeMethods /\ ~ call.csrf_ok

SwallowsCsrf   == At("security") /\ csrf_raises /\ Inward /\ UNCHANGED state_id
PassesSecurity == At("security") /\ ~ csrf_raises /\ Inward /\ UNCHANGED state_id
PassesTiming   == At("timing") /\ Inward /\ UNCHANGED state_id

\* correlation_id_middleware: the caller's id or a fresh one.
SetsId(id) == At("correlation") /\ Inward /\ state_id' = id

\* Mutant: a fresh id for every request.
Correlates_Fresh == SetsId(FreshId)

Correlates == SetsId(IF call.id = "none" THEN FreshId ELSE call.id)

\* CORSMiddleware answers a preflight request itself; OPTIONS stands for one.
Preflight  == At("cors") /\ call.method = "OPTIONS" /\ Answers("preflight")
PassesCors == At("cors") /\ call.method # "OPTIONS" /\ Inward /\ UNCHANGED state_id

\* The route returns, or refuses with an HTTPException, which is a response.
RouteAnswers ==
  /\ At("route") /\ call.outcome \in {"ok", "refused"}
  /\ Answers(call.outcome)

\* global_exception_handler, outside all layers: its body names the id.
RouteRaises ==
  /\ At("route") /\ call.outcome = "raises"
  /\ reply' = [NoReply EXCEPT !.kind = "error", !.id = state_id]
  /\ way' = "done" /\ layer' = 0
  /\ UNCHANGED << call, settings, state_id >>

\* What a layer adds on the way out.
Added(l) ==
  CASE l = "security"    -> SecurityHeaders \cup {h \in {"hsts"} : settings.production}
    [] l = "timing"      -> {"process-time"}
    [] l \in {"https", "cors", "correlation", "route"} -> {}

Outward ==
  /\ way = "out"
  /\ IF layer = 0 THEN way' = "done" /\ UNCHANGED << layer, reply >>
     ELSE /\ layer' = layer - 1
          /\ reply' = [reply EXCEPT !.headers = @ \cup Added(Layers[layer]),
                                    !.id = IF Layers[layer] = "correlation" THEN state_id ELSE @]
          /\ UNCHANGED way
  /\ UNCHANGED << call, settings, state_id >>

HttpNext ==
  \/ \E c \in Calls, s \in [enforce_https : BOOLEAN, production : BOOLEAN] : Enters(c, s)
  \/ Redirects \/ PassesHttps \/ SwallowsCsrf \/ PassesSecurity \/ PassesTiming \/ Correlates
  \/ Preflight \/ PassesCors \/ RouteAnswers \/ RouteRaises \/ Outward

HttpSpec == HttpInit /\ [][HttpNext]_httpVars

Finished == way = "done" /\ reply # NoReply

-----------------------------------------------------------------------------
(***************************************************************************)
(* Every reply but a redirect can be traced to its request, an error no    *)
(* less than an answer (main.py:98-113, 252-273): it names the id the      *)
(* caller sent, or the one drawn for it.                                   *)
(***************************************************************************)
RepliesAreTraceable ==
  (Finished /\ reply.kind # "redirect") =>
    reply.id = IF call.id = "none" THEN FreshId ELSE call.id

(***************************************************************************)
(* What a route or the CORS layer answered carries all security headers,   *)
(* in production HSTS too (main.py:149-156), whoever answered.             *)
(***************************************************************************)
AnswersAreSecured ==
  (Finished /\ reply.kind \in {"ok", "refused", "preflight"}) =>
    /\ SecurityHeaders \subseteq reply.headers
    /\ "hsts" \in reply.headers <=> settings.production
=============================================================================
