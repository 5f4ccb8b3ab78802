---------------------------- MODULE CartBinding ----------------------------
(***************************************************************************)
(* Carts and the consents bound to them (backend/kernel/domain/mandate.py, *)
(* backend/kernel/evidence/hashing.py): a consent holds the hash of the    *)
(* cart its user approved, and the cart may be priced again, in any order  *)
(* of its lines, before the consent is used.                               *)
(***************************************************************************)
EXTENDS Integers, Sequences, FiniteSets

CONSTANTS
  CartLines,     \* lines that may be put into a cart
  CartShops,
  CartCharges,   \* [shipping, tax, discount, subtotal_error]
  MaxLines,      \* bound on the lines of a cart
  ConsentAmounts,
  ConsentTerms,  \* how long a consent may be good for
  NoExpiry,      \* an absent expires_at
  MaxCartTime    \* bound on the clock

LineType ==
  [ product : STRING, merchant : STRING, title : STRING, sku : Int,
    quantity : Nat \ {0}, unit : Nat \ {0}, discount : Nat ]

\* CartItem and Consent refuse anything else; a sku's rank stands for it.
ASSUME LineAssumption == CartLines \subseteq LineType
ASSUME ConsentAssumption ==
  /\ ConsentAmounts \subseteq Nat \ {0}
  /\ ConsentTerms \subseteq Nat \cup {NoExpiry} /\ NoExpiry \notin Nat
ASSUME CartAssumption == MaxLines \in Nat /\ MaxCartTime \in Nat

VARIABLES
  cartTime,
  current,   \* the cart as it was priced last
  consent,   \* the consent: hash, amount, status, expiry
  approved   \* ghost: the cart the consent was asked for

cartVars == << cartTime, current, consent, approved >>

-----------------------------------------------------------------------------
line_total(l) == l.unit * l.quantity - l.discount

\* Mutant: the lines are hashed in the order they came in.
Sorted_AsListed(items) == items

\* sorted(items, key = sku), which is stable: line i goes to its place behind
\* all lines of smaller skus and those of its own that were listed before it.
Precedes(items, i, j) == items[i].sku < items[j].sku \/ (items[i].sku = items[j].sku /\ i < j)

Place(items, i) == 1 + Cardinality({j \in DOMAIN items : Precedes(items, j, i)})

Sorted(items) == [n \in DOMAIN items |-> items[CHOOSE i \in DOMAIN items : Place(items, i) = n]]

\* Mutant: the discount of a line is left out.
CanonicalLine_Undiscounted(l) ==
  [ product |-> l.product, sku |-> l.sku, quantity |-> l.quantity, unit |-> l.unit, discount |-> 0,
    total |-> l.unit * l.quantity ]

\* What is hashed of a line: neither its title nor its own merchant.
CanonicalLine(l) ==
  [ product |-> l.product, sku |-> l.sku, quantity |-> l.quantity, unit |-> l.unit,
    discount |-> l.discount, total |-> line_total(l) ]

\* compute_cart_hash, up to SHA-256: equal for equal canonical contents only.
compute_cart_hash(c) ==
  [ shop |-> c.shop, subtotal |-> c.subtotal, shipping |-> c.shipping, tax |-> c.tax,
    discount |-> c.discount, total |-> c.total,
    items |-> [n \in DOMAIN c.items |-> CanonicalLine(Sorted(c.items)[n])] ]

\* The subtotal is the caller's; Cart checks that the total fits it, no more.
SumOfLines(items) ==
  LET sum[n \in 0 .. Len(items)] == IF n = 0 THEN 0 ELSE sum[n - 1] + line_total(items[n])
  IN sum[Len(items)]

NewCart(shop, items, x) ==
  LET subtotal == SumOfLines(items) + x.subtotal_error IN
  [ shop |-> shop, items |-> items, subtotal |-> subtotal, shipping |-> x.shipping,
    tax |-> x.tax, discount |-> x.discount,
    total |-> subtotal + x.shipping + x.tax - x.discount ]

\* Consent.is_valid and Consent.matches_cart.
is_valid ==
  consent.status = "approved" /\ (consent.expires = NoExpiry \/ cartTime <= consent.expires)

matches_cart == consent.hash = compute_cart_hash(current)

-----------------------------------------------------------------------------
NoCart    == [total |-> 0]
NoConsent == [status |-> "none"]

CartInit == cartTime = 0 /\ current = NoCart /\ consent = NoConsent /\ approved = NoCart

\* A cart is priced, for the first time or again; a negative total is refused.
PriceCart(shop, items, x) ==
  /\ NewCart(shop, items, x).total >= 0
  /\ current' = NewCart(shop, items, x)
  /\ UNCHANGED << cartTime, consent, approved >>

\* The user is asked to approve the cart as it is.  The amount is the
\* caller's: nothing compares it with the total.
AskConsent(amount, term) ==
  /\ current # NoCart /\ consent = NoConsent
  /\ consent' = [ hash |-> compute_cart_hash(current), amount |-> amount, status |-> "pending",
                  expires |-> IF term = NoExpiry THEN NoExpiry ELSE cartTime + term ]
  /\ approved' = current
  /\ UNCHANGED << cartTime, current >>

Settle(s) ==
  /\ consent.status = "pending"
  /\ consent' = [consent EXCEPT !.status = s]
  /\ UNCHANGED << cartTime, current, approved >>

CartTick ==
  /\ cartTime < MaxCartTime
  /\ cartTime' = cartTime + 1
  /\ UNCHANGED << current, consent, approved >>

CartNext ==
  \/ \E shop \in CartShops, n \in 1 .. MaxLines, x \in CartCharges :
       \E items \in [1 .. n -> CartLines] : PriceCart(shop, items, x)
  \/ \E amount \in ConsentAmounts, term \in ConsentTerms : AskConsent(amount, term)
  \/ \E s \in {"approved", "rejected"} : Settle(s)
  \/ CartTick

CartSpec == CartInit /\ [][CartNext]_cartVars

-----------------------------------------------------------------------------
Alike(l, k) ==
  /\ l.product = k.product /\ l.sku = k.sku /\ l.quantity = k.quantity
  /\ l.unit = k.unit /\ l.discount = k.discount

Copies(c, l) == Cardinality({n \in DOMAIN c.items : Alike(c.items[n], l)})

SameCharges(c, d) ==
  /\ c.shop = d.shop /\ c.subtotal = d.subtotal /\ c.shipping = d.shipping
  /\ c.tax = d.tax /\ c.discount = d.discount /\ c.total = d.total

SameCart(c, d) == SameCharges(c, d) /\ \A l \in CartLines : Copies(c, l) = Copies(d, l)

(***************************************************************************)
(* INV-06, "Cart change invalidates consent": a consent that is valid and  *)
(* matches was given for a cart with the same charges and the same lines,  *)
(* each with its product, sku, quantity, prices and discount, however      *)
(* often the cart was priced again in between.  Titles and the merchants   *)
(* of lines are not hashed (hashing.py:102-112), so that a cart may change *)
(* in them alone and still match, where mandate.py:274 says that the hash  *)
(* "changes on any modification"; nor does the amount of the consent bind  *)
(* the total.                                                              *)
(***************************************************************************)
ConsentBindsCart == (is_valid /\ matches_cart) => SameCart(current, approved)

(***************************************************************************)
(* And nothing but a change invalidates it: the same lines listed in       *)
(* another order still match, as long as no two lines share a sku.         *)
(***************************************************************************)
ReorderingKeepsConsent ==
  (/\ consent # NoConsent
   /\ SameCart(current, approved)
   /\ \A m, n \in DOMAIN current.items :
          current.items[m].sku = current.items[n].sku => m = n)
     => matches_cart
=============================================================================
