--------------------------- MODULE SpendingLedger ---------------------------
(***************************************************************************)
(* What the authorization service promises to the rest of the system, with *)
(* nothing of how it decides: a grant has a limit, every spend names a     *)
(* token that was never redeemed before, and no grant is spent beyond its  *)
(* limit.  The ledger lives in the memory of one process: losing that      *)
(* process loses all of it at once, never a part of it.                    *)
(***************************************************************************)
EXTENDS Integers

CONSTANTS
  Grants,     \* identifiers of spending grants
  Tokens,     \* one-time tokens a spend must present
  Amounts     \* amounts that limits and spends are drawn from

VARIABLES
  limit,      \* the limit of each grant that was made
  spent,      \* what was spent of each of them
  redeemed    \* the tokens that were spent

vars == << limit, spent, redeemed >>

Extend(f, k, v) == [x \in DOMAIN f \cup {k} |-> IF x = k THEN v ELSE f[x]]

Empty == [x \in {} |-> 0]

Init == limit = Empty /\ spent = Empty /\ redeemed = {}

Grant(g, n) ==
  /\ g \notin DOMAIN limit
  /\ limit' = Extend(limit, g, n)
  /\ spent' = Extend(spent, g, 0)
  /\ UNCHANGED redeemed

Spend(g, n, t) ==
  /\ g \in DOMAIN limit
  /\ t \notin redeemed
  /\ spent[g] + n <= limit[g]
  /\ spent' = [spent EXCEPT ![g] = @ + n]
  /\ redeemed' = redeemed \cup {t}
  /\ UNCHANGED limit

Lose == limit' = Empty /\ spent' = Empty /\ redeemed' = {}

Next ==
  \/ \E g \in Grants, n \in Amounts : Grant(g, n)
  \/ \E g \in Grants, n \in Amounts, t \in Tokens : Spend(g, n, t)
  \/ Lose

Spec == Init /\ [][Next]_vars
=============================================================================
