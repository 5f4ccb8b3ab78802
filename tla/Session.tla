------------------------------ MODULE Session ------------------------------
(***************************************************************************)
(* Accounts and tokens (apps/api/routes/auth.py, apps/api/security.py).    *)
(* The user store and its email index die with the process; a token is     *)
(* signed, carries its user and its expiry, and is judged by these alone.  *)
(***************************************************************************)
EXTENDS Integers, FiniteSets

CONSTANTS
  Emails,
  UserIds,   \* ids uuid4 may hand out
  Lifetime,  \* jwt_expiry_minutes
  MaxSessionTime    \* bound on the clock

ASSUME TimeAssumption == Lifetime \in Nat /\ MaxSessionTime \in Nat

VARIABLES
  now,
  data,         \* the user store: id -> email
  email_index,  \* email -> id
  issued,       \* ids handed out so far
  tokens,       \* tokens issued and not yet expired: [sub, exp]
  known         \* per id, the last instant at which the store knew it

sessionVars == << now, data, email_index, issued, tokens, known >>

NoAccounts == [x \in {} |-> 0]

Stored(d, k, v) == [x \in DOMAIN d \cup {k} |-> IF x = k THEN v ELSE d[x]]

get_by_email(e) == {u \in DOMAIN data : e \in DOMAIN email_index /\ email_index[e] = u}

\* decode_access_token: PyJWT refuses a token once now reaches exp.
Accepted(t) == t \in tokens /\ now < t.exp

create_access_token(u) == tokens' = tokens \cup {[sub |-> u, exp |-> now + Lifetime]}

-----------------------------------------------------------------------------
SessionInit ==
  /\ now = 0
  /\ data = NoAccounts /\ email_index = NoAccounts /\ issued = {} /\ tokens = {} /\ known = NoAccounts

\* Mutant: a known email is registered again.
RegisterAgain(e, u) ==
  /\ u \notin issued
  /\ issued' = issued \cup {u}
  /\ data' = Stored(data, u, e) /\ email_index' = Stored(email_index, e, u)
  /\ known' = Stored(known, u, now)
  /\ UNCHANGED << now, tokens >>

\* 409 for an email that is taken; no handler runs in between.
Register(e, u) ==
  /\ get_by_email(e) = {}
  /\ u \notin issued
  /\ issued' = issued \cup {u}
  /\ data' = Stored(data, u, e) /\ email_index' = Stored(email_index, e, u)
  /\ known' = Stored(known, u, now)
  /\ UNCHANGED << now, tokens >>

Login(e) ==
  /\ \E u \in get_by_email(e) : create_access_token(u)
  /\ UNCHANGED << now, data, email_index, issued, known >>

\* Mutant: the token is enough, as for every other route.
RefreshUnknown(t) ==
  /\ Accepted(t)
  /\ create_access_token(t.sub)
  /\ UNCHANGED << now, data, email_index, issued, known >>

\* POST /auth/refresh, with any token still accepted.
Refresh(t) ==
  /\ Accepted(t)
  /\ t.sub \in DOMAIN data
  /\ create_access_token(t.sub)
  /\ UNCHANGED << now, data, email_index, issued, known >>

Tick ==
  /\ now < MaxSessionTime
  /\ now' = now + 1
  /\ tokens' = {t \in tokens : now' < t.exp}
  /\ known' = [u \in DOMAIN known |-> IF u \in DOMAIN data THEN now' ELSE known[u]]
  /\ UNCHANGED << data, email_index, issued >>

Restart ==
  /\ data' = NoAccounts /\ email_index' = NoAccounts
  /\ UNCHANGED << now, issued, tokens, known >>

SessionNext ==
  \/ \E e \in Emails, u \in UserIds : Register(e, u)
  \/ \E e \in Emails : Login(e)
  \/ \E t \in tokens : Refresh(t)
  \/ Tick
  \/ Restart

SessionSpec == SessionInit /\ [][SessionNext]_sessionVars

-----------------------------------------------------------------------------
(***************************************************************************)
(* The email index and the user store agree: an email leads to the one     *)
(* account that has it.                                                    *)
(***************************************************************************)
OneAccountPerEmail ==
  \A u \in DOMAIN data : data[u] \in DOMAIN email_index /\ email_index[data[u]] = u

(***************************************************************************)
(* A token of an account that a restart forgot runs out: however often it  *)
(* was refreshed, it is accepted for one lifetime after the store last     *)
(* knew its user.                                                          *)
(***************************************************************************)
ForgottenRunsOut ==
  \A t \in tokens : Accepted(t) => /\ t.sub \in DOMAIN known
                                   /\ t.exp <= known[t.sub] + Lifetime
=============================================================================
