---------------------------- MODULE ToolRegistry ----------------------------
(***************************************************************************)
(* The tools agents may call (backend/mcp/registry.py) and the route that  *)
(* lists and dispatches them (apps/api/routes/mcp.py).  The registry is    *)
(* filled once, when the route is imported.  The route knows no agents: it *)
(* judges each listing and each call by the capabilities sent with it.     *)
(***************************************************************************)
EXTENDS FiniteSets

CONSTANT
  SentCapabilities  \* sets of capabilities that callers send

ASSUME SentAssumption == SentCapabilities \subseteq SUBSET STRING

VARIABLES
  listed,   \* the last listing a client got: capabilities sent, tools shown
  called    \* the last invocation: capabilities sent, tool, result

registryVars == << listed, called >>

\* create_default_registry.
RequiredBy ==
  [ search_products       |-> {"search"},
    compare_products      |-> {"compare"},
    negotiate_offers      |-> {"negotiate"},
    propose_cart          |-> {"propose_cart"},
    request_authorization |-> {"request_authorization"},
    view_proof            |-> {"view_proof"},
    manage_catalog        |-> {"manage_catalog"},
    approve_offer         |-> {"approve_offer"} ]

tools == RequiredBy

\* What create_buyer_agent and create_merchant_agent give to agents.
BuyerCapabilities ==
  {"search", "compare", "negotiate", "propose_cart", "request_authorization", "view_proof"}

MerchantCapabilities ==
  {"search", "manage_catalog", "manage_policy", "approve_offer", "negotiate"}

\* _tool_handlers, and the two of them that import modules which are not there.
Handled == {"search_products", "compare_products", "negotiate_offers", "propose_cart",
            "request_authorization", "view_proof"}

Broken == {"negotiate_offers", "propose_cart"}

-----------------------------------------------------------------------------
has_access(n, caps) == tools[n] \subseteq caps

list_for_agent(caps) == {n \in DOMAIN tools : has_access(n, caps)}

\* Mutant: the capabilities sent are not looked at.
list_tools_All(caps) == DOMAIN tools

\* GET /mcp/tools: who names no capability is shown every tool.
list_tools(caps) == IF caps = {} THEN DOMAIN tools ELSE list_for_agent(caps)

verify_access(n, caps) == n \in DOMAIN tools /\ has_access(n, caps)

\* The handler raises for unfit parameters; request_authorization reads none.
Result(n, caps, fit) ==
  IF ~ verify_access(n, caps) THEN "denied"
  ELSE IF n \in Handled \ Broken /\ (fit \/ n = "request_authorization") THEN "success"
  ELSE "error"

-----------------------------------------------------------------------------
NoListing == [caps |-> {}, tools |-> {}]
NoCall    == [caps |-> {}, tool |-> "none", result |-> "none"]

RegistryInit == listed = NoListing /\ called = NoCall

ListTools(caps) ==
  /\ listed' = [caps |-> caps, tools |-> list_tools(caps)]
  /\ UNCHANGED called

InvokeTool(caps, n, fit) ==
  /\ called' = [caps |-> caps, tool |-> n, result |-> Result(n, caps, fit)]
  /\ UNCHANGED listed

RegistryNext ==
  \/ \E caps \in SentCapabilities : ListTools(caps)
  \/ \E caps \in SentCapabilities, n \in DOMAIN tools \cup {"unknown"}, fit \in BOOLEAN :
       InvokeTool(caps, n, fit)

RegistrySpec == RegistryInit /\ [][RegistryNext]_registryVars

-----------------------------------------------------------------------------
(***************************************************************************)
(* Discovery and dispatch agree (mcp.py:64-69 and 105) for a client that   *)
(* names capabilities when it lists: a tool it was shown is not denied to  *)
(* a call with those capabilities or more, and a tool it was not shown is  *)
(* denied to a call with those or fewer.  A client that names none is      *)
(* shown every tool, and may be denied each of them.                       *)
(***************************************************************************)
ListingAgrees ==
  (listed.caps # {} /\ called # NoCall) =>
    /\ (called.tool \in listed.tools /\ listed.caps \subseteq called.caps)
         => called.result # "denied"
    /\ (called.tool \notin listed.tools /\ called.caps \subseteq listed.caps)
         => called.result = "denied"
=============================================================================
