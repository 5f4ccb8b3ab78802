---------------------------- MODULE KernelProofs ----------------------------
(***************************************************************************)
(* Machine-checked theorems about components of the kernel and of the API  *)
(* that stand alone: money, lifecycles, negotiation, search, HTTP, trust.  *)
(***************************************************************************)
EXTENDS Money, Lifecycle, Negotiation, TrustScore, CatalogSearch, HttpPipeline,
        FiniteSetTheorems, WellFoundedInduction, TLAPS

-----------------------------------------------------------------------------
(* Money.                                                                  *)

\* What is quoted is what was computed for what was asked.
QuoteIsComputed ==
  \/ quote = Unasked
  \/ /\ ask \in Asks
     /\ LET discount == compute_discount(Base, ask.discount_rate, ask.floor)
            line     == compute_line_total(ask.unit_price, ask.quantity, discount)
            tax      == compute_tax(line, ask.tax_rate)
            total    == compute_cart_total(line, ask.shipping, tax, ask.cart_discount)
        IN quote = IF line < 0 \/ total < 0 THEN Raised
                   ELSE [discount |-> discount, line |-> line, tax |-> tax, total |-> total]

(***************************************************************************)
(* The quote stays the one computed when it was asked for.                 *)
(***************************************************************************)
LEMMA QuoteInvariant == MoneySpec => []QuoteIsComputed
<1>1. MoneyInit => QuoteIsComputed
  BY DEF MoneyInit, QuoteIsComputed
<1>2. QuoteIsComputed /\ [MoneyNext]_moneyVars => QuoteIsComputed'
  <2> SUFFICES ASSUME QuoteIsComputed, [MoneyNext]_moneyVars PROVE QuoteIsComputed'
    OBVIOUS
  <2>1. ASSUME NEW a \in Asks, Price(a) PROVE QuoteIsComputed'
    BY <2>1, Zenon DEF Price, QuoteIsComputed, Base
  <2>2. CASE UNCHANGED moneyVars
    BY <2>2, Zenon DEF moneyVars, QuoteIsComputed, Base
  <2> QED BY <2>1, <2>2 DEF MoneyNext
<1> QED BY <1>1, <1>2, PTL DEF MoneySpec

\* d is the largest whole amount that rate and floor permit.
Allowed(d, base, rate, floor) == d * 10000 <= base * rate /\ (d = 0 \/ base - d >= floor)

LargestOf(d, base, rate, floor) ==
  Allowed(d, base, rate, floor) /\ \A e \in 0 .. base : Allowed(e, base, rate, floor) => e <= d

(***************************************************************************)
(* The discount of a base price: as much as the rate and the floor allow.  *)
(***************************************************************************)
LEMMA DiscountBounds ==
  ASSUME NEW base \in Nat, NEW rate \in Nat, NEW floor \in Nat
  PROVE  /\ compute_discount(base, rate, floor) \in 0 .. base
         /\ LargestOf(compute_discount(base, rate, floor), base, rate, floor)
<1> DEFINE x == base * rate
<1>1. x \in Nat
  OBVIOUS
<1>2. compute_discount(base, rate, floor) = Min2(Down(x), Max2(0, base - floor))
  BY DEF compute_discount
<1> HIDE DEF x
<1>3. Down(x) \in Nat /\ Down(x) * 10000 <= x /\ x < (Down(x) + 1) * 10000
  BY <1>1 DEF Down
<1>4. \A e \in Nat : e * 10000 <= x => e <= Down(x)
  BY <1>1, <1>3
<1> QED BY <1>2, <1>3, <1>4 DEF Min2, Max2, x, LargestOf, Allowed

(***************************************************************************)
(* The discount is exact for every price, quantity, rate and floor.        *)
(***************************************************************************)
THEOREM DiscountsAreExact == MoneySpec => []DiscountIsExact
<1>1. QuoteIsComputed => DiscountIsExact
  <2> SUFFICES ASSUME QuoteIsComputed, Priced
               PROVE  quote.discount \in 0 .. Base /\ ExactDiscount(quote.discount)
    BY DEF DiscountIsExact
  <2>1. /\ Base \in Nat /\ ask.discount_rate \in Nat /\ ask.floor \in Nat
        /\ quote.discount = compute_discount(Base, ask.discount_rate, ask.floor)
    BY AskAssumption DEF QuoteIsComputed, Priced, AskType, Base
  <2>2. /\ quote.discount \in 0 .. Base
        /\ LargestOf(quote.discount, Base, ask.discount_rate, ask.floor)
    BY <2>1, DiscountBounds
  <2>3. \A d : Permitted(d) <=> Allowed(d, Base, ask.discount_rate, ask.floor)
    BY DEF Permitted, Allowed
  <2> QED BY <2>1, <2>2, <2>3 DEF LargestOf, ExactDiscount
<1> QED BY <1>1, QuoteInvariant, PTL

(***************************************************************************)
(* There is one exact discount, the one that was computed.                 *)
(***************************************************************************)
LEMMA OneExactDiscount ==
  ASSUME ask \in AskType, NEW d \in 0 .. Base, ExactDiscount(d)
  PROVE  d = compute_discount(Base, ask.discount_rate, ask.floor)
<1> DEFINE c == compute_discount(Base, ask.discount_rate, ask.floor)
<1>1. Base \in Nat /\ ask.discount_rate \in Nat /\ ask.floor \in Nat
  BY DEF AskType, Base
<1>2. c \in 0 .. Base /\ LargestOf(c, Base, ask.discount_rate, ask.floor)
  BY <1>1, DiscountBounds
<1>3. \A e : Permitted(e) <=> Allowed(e, Base, ask.discount_rate, ask.floor)
  BY DEF Permitted, Allowed
<1> HIDE DEF c
<1>4. d <= c
  BY <1>2, <1>3 DEF ExactDiscount, LargestOf
<1>5. ~ (d < c)
  BY <1>1, <1>2, <1>3 DEF ExactDiscount, LargestOf
<1>6. d = c
  BY <1>1, <1>2, <1>4, <1>5
<1> QED BY <1>6 DEF c

(***************************************************************************)
(* HalfUp is the nearest whole amount, and adding a whole amount does not  *)
(* change that.                                                            *)
(***************************************************************************)
LEMMA HalfUpIsNearest ==
  ASSUME NEW x \in Nat, NEW n \in Int
  PROVE  HalfUp(x) \in Nat /\ Nearest(HalfUp(x), x) /\ Nearest(HalfUp(x) + n, 10000 * n + x)
BY DEF HalfUp, Nearest

(***************************************************************************)
(* The total is the exact amount due to the nearest paisa, and refused     *)
(* when that is below zero.                                                *)
(***************************************************************************)
THEOREM TotalsAreExact == MoneySpec => []TotalIsExact
<1>1. QuoteIsComputed => TotalIsExact
  <2> SUFFICES ASSUME QuoteIsComputed, quote # Unasked PROVE TotalIsExact
    BY OutcomeAssumption DEF TotalIsExact, Priced
  <2> DEFINE discount == compute_discount(Base, ask.discount_rate, ask.floor)
             line     == compute_line_total(ask.unit_price, ask.quantity, discount)
             tax      == compute_tax(line, ask.tax_rate)
             total    == compute_cart_total(line, ask.shipping, tax, ask.cart_discount)
             rest     == line + ask.shipping - ask.cart_discount
  <2>1. ask \in AskType
    BY AskAssumption DEF QuoteIsComputed
  <2>2. /\ Base \in Nat /\ ask.discount_rate \in Nat /\ ask.floor \in Nat /\ ask.tax_rate \in Nat
        /\ ask.shipping \in Nat /\ ask.cart_discount \in Nat
    BY <2>1 DEF AskType, Base
  <2>3. line = Base - discount /\ line \in Nat /\ discount \in 0 .. Base
    <3>1. discount \in 0 .. Base
      BY <2>2, DiscountBounds
    <3>2. line = Base - discount
      BY DEF compute_line_total, Base
    <3> HIDE DEF discount, line
    <3> QED BY <2>2, <3>1, <3>2
  <2>4. quote = IF line < 0 \/ total < 0 THEN Raised
                ELSE [discount |-> discount, line |-> line, tax |-> tax, total |-> total]
    BY DEF QuoteIsComputed
  <2>5. tax = HalfUp(line * ask.tax_rate) /\ total = tax + rest
    <3>1. tax = HalfUp(line * ask.tax_rate)
      BY DEF compute_tax
    <3>2. tax \in Nat
      <4>1. line * ask.tax_rate \in Nat
        BY <2>2, <2>3
      <4> HIDE DEF line, tax
      <4> QED BY <3>1, <4>1, HalfUpIsNearest
    <3>3. total = line + ask.shipping + tax - ask.cart_discount
      BY DEF compute_cart_total
    <3> HIDE DEF line, tax, total
    <3> QED BY <2>2, <2>3, <3>1, <3>2, <3>3
  <2>6. ExactTax(discount) = line * ask.tax_rate /\ ExactDue(discount) = 10000 * rest + ExactTax(discount)
    <3> HIDE DEF discount, line
    <3> QED BY <2>2, <2>3 DEF ExactTax, ExactDue
  <2>7. rest \in Int /\ line * ask.tax_rate \in Nat
    BY <2>2, <2>3
  <2>8. /\ tax \in Nat /\ total \in Int
        /\ Nearest(tax, ExactTax(discount)) /\ Nearest(total, ExactDue(discount))
    <3> DEFINE y == line * ask.tax_rate
    <3> HIDE DEF line, tax, total, rest, discount
    <3>1. y \in Nat /\ rest \in Int /\ tax = HalfUp(y) /\ total = HalfUp(y) + rest
      BY <2>5, <2>7
    <3>2. ExactTax(discount) = y /\ ExactDue(discount) = 10000 * rest + y
      BY <2>6
    <3> HIDE DEF y
    <3>3. HalfUp(y) \in Nat /\ Nearest(HalfUp(y), y) /\ Nearest(HalfUp(y) + rest, 10000 * rest + y)
      BY <3>1, HalfUpIsNearest
    <3> QED BY <3>1, <3>2, <3>3
  <2> HIDE DEF discount, line, tax, total, rest
  <2>9. CASE total < 0
    <3>1. quote = Raised
      BY <2>3, <2>4, <2>9
    <3>2. ExactDue(discount) \in Int
      BY <2>6, <2>7
    <3>3. 2 * ExactDue(discount) < -10000
      BY <2>8, <2>9, <3>2 DEF Nearest
    <3>4. \A d \in 0 .. Base : ExactDiscount(d) => d = discount
      BY <2>1, OneExactDiscount DEF discount
    <3> QED BY <3>1, <3>3, <3>4 DEF TotalIsExact, Priced
  <2>10. CASE ~ (total < 0)
    <3>1. quote = [discount |-> discount, line |-> line, tax |-> tax, total |-> total]
      BY <2>3, <2>4, <2>10
    <3>2. quote # Raised
      BY <2>3, <2>8, <3>1, OutcomeAssumption DEF QuoteType
    <3>3. quote.total >= 0
      BY <2>8, <2>10, <3>1
    <3> QED BY <2>8, <3>1, <3>2, <3>3 DEF TotalIsExact
  <2> QED BY <2>9, <2>10
<1> QED BY <1>1, QuoteInvariant, PTL

-----------------------------------------------------------------------------
(* Lifecycles.                                                             *)

(***************************************************************************)
(* Once an order is paid it is being delivered or refunded.                *)
(***************************************************************************)
THEOREM PaidOrdersAreKept == LifecycleSpec => PaidIsKept
<1>1. \A s, t : s \in Settled /\ IsStep(ORDER_SM, s, t) => t \in Settled
  BY DEF Settled, IsStep, ORDER_SM
<1>2. [LifecycleNext]_lifecycleVars => [(order \in Settled) => (order' \in Settled)]_lifecycleVars
  BY <1>1 DEF LifecycleNext, CartEvent, OrderEvent, PaymentEvent, lifecycleVars
<1> QED BY <1>2, PTL DEF LifecycleSpec, PaidIsKept

(***************************************************************************)
(* In each table every state leads to an end.                              *)
(***************************************************************************)
LEMMA CartsEnd == States(CART_SM) \subseteq EndingCarts
<1> SUFFICES ASSUME NEW s \in States(CART_SM), NEW S \in SUBSET States(CART_SM), s \in S,
                    Closed(CART_SM, S)
             PROVE  S \cap CART_SM.terminal # {}
  BY DEF EndingCarts, CanEnd
<1>1. /\ "open" \in S => "priced" \in S
      /\ "priced" \in S => "cancelled" \in S
      /\ "consent_pending" \in S => "cancelled" \in S
      /\ "authorized" \in S => "cancelled" \in S
      /\ "payment_pending" \in S => "paid" \in S
  BY DEF Closed, CART_SM
<1>2. s \in { "open", "priced", "consent_pending", "authorized", "payment_pending", "paid",
              "expired", "cancelled" }
  BY DEF States, CART_SM
<1> QED BY <1>1, <1>2 DEF CART_SM

(***************************************************************************)
(* The same of orders.                                                     *)
(***************************************************************************)
LEMMA OrdersEnd == States(ORDER_SM) \subseteq EndingOrders
<1> SUFFICES ASSUME NEW s \in States(ORDER_SM), NEW S \in SUBSET States(ORDER_SM), s \in S,
                    Closed(ORDER_SM, S)
             PROVE  S \cap ORDER_SM.terminal # {}
  BY DEF EndingOrders, CanEnd
<1>1. /\ "created" \in S => "cancelled" \in S
      /\ "payment_failed" \in S => "payment_pending" \in S
      /\ "payment_pending" \in S => "cancelled" \in S
      /\ "paid" \in S => "refunded" \in S
      /\ "fulfilling" \in S => "shipped" \in S
      /\ "shipped" \in S => "delivered" \in S
      /\ "delivered" \in S => "refunded" \in S
  BY DEF Closed, ORDER_SM
<1>2. s \in { "created", "payment_pending", "payment_failed", "paid", "fulfilling", "shipped",
              "delivered", "refunded", "cancelled" }
  BY DEF States, ORDER_SM
<1> QED BY <1>1, <1>2 DEF ORDER_SM

(***************************************************************************)
(* The same of payments as we see them.                                    *)
(***************************************************************************)
LEMMA PaymentsEnd == States(PAYMENT_LOCAL_SM) \subseteq EndingPayments
<1> SUFFICES ASSUME NEW s \in States(PAYMENT_LOCAL_SM), NEW S \in SUBSET States(PAYMENT_LOCAL_SM),
                    s \in S, Closed(PAYMENT_LOCAL_SM, S)
             PROVE  S \cap PAYMENT_LOCAL_SM.terminal # {}
  BY DEF EndingPayments, CanEnd
<1>1. /\ "initiated" \in S => "provider_requested" \in S
      /\ "provider_requested" \in S => "provider_acknowledged" \in S
      /\ "provider_acknowledged" \in S => "completed" \in S
      /\ "provider_error" \in S => "abandoned" \in S
      /\ "timeout" \in S => "failed" \in S
  BY DEF Closed, PAYMENT_LOCAL_SM
<1>2. s \in { "initiated", "provider_requested", "provider_acknowledged", "provider_error",
              "timeout", "completed", "failed", "abandoned" }
  BY DEF States, PAYMENT_LOCAL_SM
<1> QED BY <1>1, <1>2 DEF PAYMENT_LOCAL_SM

(***************************************************************************)
(* Whatever events arrive, cart, order and payment stay in their tables,   *)
(* and from every state of a table some events lead to an end.             *)
(***************************************************************************)
THEOREM NoStateIsATrap == LifecycleSpec => []NoTrap
<1> DEFINE InTables == /\ cart \in States(CART_SM) /\ order \in States(ORDER_SM)
                       /\ payment \in States(PAYMENT_LOCAL_SM)
<1>1. LifecycleInit => InTables
  BY DEF LifecycleInit, States, CART_SM, ORDER_SM, PAYMENT_LOCAL_SM
<1>2. InTables /\ [LifecycleNext]_lifecycleVars => InTables'
  BY DEF LifecycleNext, CartEvent, OrderEvent, PaymentEvent, lifecycleVars
<1>3. InTables => NoTrap
  BY CartsEnd, OrdersEnd, PaymentsEnd DEF NoTrap
<1> QED BY <1>1, <1>2, <1>3, PTL DEF LifecycleSpec

-----------------------------------------------------------------------------
(* Catalog search.                                                         *)

\* A row stood like this in the catalog at some moment of the request, where
\* the database judged it.
StoodIn(c, m) ==
  c.id \in ProductIds /\ SqlMatches(m[c.id], search.filter) /\ c = Candidate(c.id, m[c.id])

\* The request and its locals.
Searching(stage, f, limit, offset, total, rows) ==
  [ stage |-> stage, filter |-> f, limit |-> limit, offset |-> offset, total |-> total, rows |-> rows ]

SearchInv ==
  /\ catalog \in [ProductIds -> Listed] /\ moments \subseteq [ProductIds -> Listed]
  /\ search = NoSearch \/
       (/\ catalog \in moments /\ IsFiniteSet(moments)
        /\ \E stage \in {"counted", "read", "answered"}, f \in Filters, limit \in PageLimits,
              offset \in Nat : \E total, rows :
             search = Searching(stage, f, limit, offset, total, rows)
        /\ \A n \in DOMAIN search.rows : \E m \in moments : StoodIn(search.rows[n], m))

\* How far a walk has come with a page.
Last(offset, limit, total) == IF offset + limit < total THEN offset + limit ELSE total

(***************************************************************************)
(* A page is the piece of the order that begins behind its offset.         *)
(***************************************************************************)
LEMMA PageIsPiece ==
  ASSUME NEW S, NEW s \in Orders(S), Cardinality(S) \in Nat, NEW limit \in Nat, NEW offset \in Nat
  PROVE  PageOf(s, limit, offset)
           = [n \in 1 .. (Last(offset, limit, Cardinality(S)) - offset) |-> s[n + offset]]
<1>1. s \in Seq(S) /\ Len(s) = Cardinality(S)
  BY DEF Orders
<1>2. PICK last : last = Last(offset, limit, Cardinality(S))
  OBVIOUS
<1>3. last \in Nat /\ last <= Len(s) /\ DOMAIN s = 1 .. Len(s)
  BY <1>1, <1>2 DEF Last
<1>4. PageOf(s, limit, offset) = SubSeq(s, offset + 1, last)
  BY <1>1, <1>2 DEF PageOf, Last
<1>5. PageOf(s, limit, offset) = [n \in 1 .. (last - offset) |-> s[n + offset]]
  BY <1>1, <1>3, <1>4
<1> QED BY <1>2, <1>5

(***************************************************************************)
(* A page holds rows that the database judged to match.                    *)
(***************************************************************************)
LEMMA PageRowsMatch ==
  ASSUME NEW S, NEW s \in Orders(S), Cardinality(S) \in Nat, NEW limit \in Nat, NEW offset \in Nat,
         NEW n \in DOMAIN PageOf(s, limit, offset)
  PROVE  PageOf(s, limit, offset)[n] \in S
<1> DEFINE last == Last(offset, limit, Cardinality(S))
<1>0. PageOf(s, limit, offset) = [i \in 1 .. (last - offset) |-> s[i + offset]]
  BY PageIsPiece
<1>1. n \in 1 .. (last - offset) /\ PageOf(s, limit, offset)[n] = s[n + offset]
  BY <1>0
<1>2. n + offset \in 1 .. Cardinality(S)
  BY <1>1 DEF Last
<1> QED BY <1>1, <1>2 DEF Orders

(***************************************************************************)
(* The statement that reads a page, from the catalog as it is.             *)
(***************************************************************************)
LEMMA ReadPageStep == ASSUME SearchInv, ReadPage PROVE SearchInv'
<1>1. search # NoSearch
  BY DEF ReadPage, NoSearch
<1>asked. PICK stage \in {"counted", "read", "answered"}, f \in Filters, limit \in PageLimits,
               offset \in Nat : \E total, rows : search = Searching(stage, f, limit, offset, total, rows)
  BY <1>1 DEF SearchInv
<1>2. PICK total, rows : search = Searching(stage, f, limit, offset, total, rows)
  BY <1>asked
<1>3. search.filter = f /\ search.limit = limit /\ search.offset = offset
  BY <1>2 DEF Searching
<1>4. PICK s \in Orders(Matching(search.filter)) :
        LET page == PageOf(s, search.limit, search.offset) IN
        search' = [search EXCEPT !.stage = "read",
                                 !.rows = [n \in DOMAIN page |-> Candidate(page[n], catalog[page[n]])]]
  BY DEF ReadPage
<1> DEFINE page == PageOf(s, limit, offset)
           new  == [n \in DOMAIN page |-> Candidate(page[n], catalog[page[n]])]
<1>5. search' = Searching("read", f, limit, offset, total, new)
  BY <1>2, <1>3, <1>4 DEF Searching
<1>6. IsFiniteSet(Matching(f)) /\ Matching(f) \subseteq ProductIds
  BY ProductAssumption, FS_Subset DEF Matching, MatchingIn
<1>7. Cardinality(Matching(f)) \in Nat
  BY <1>6, FS_CardinalityType
<1>8. \A n \in DOMAIN page : page[n] \in Matching(f)
  BY <1>3, <1>7, PageRowsMatch, PageAssumption
<1>9. UNCHANGED << catalog, moments >> /\ catalog \in moments
  BY <1>1 DEF ReadPage, SearchInv
<1>10. search'.filter = f /\ search'.rows = new
  BY <1>5 DEF Searching
<1>11. \A n \in DOMAIN search'.rows : \E m \in moments' : StoodIn(search.rows[n], m)'
  <2> SUFFICES ASSUME NEW n \in DOMAIN new
               PROVE  \E m \in moments' :
                        /\ new[n].id \in ProductIds /\ SqlMatches(m[new[n].id], f)
                        /\ new[n] = Candidate(new[n].id, m[new[n].id])
    BY <1>10 DEF StoodIn
  <2>1. new[n] = Candidate(page[n], catalog[page[n]]) /\ page[n] \in Matching(f)
    BY <1>8
  <2>2. new[n].id = page[n]
    BY <2>1 DEF Candidate
  <2> QED BY <1>9, <2>1, <2>2 DEF Matching, MatchingIn
<1> QED BY <1>1, <1>5, <1>9, <1>11 DEF SearchInv

(***************************************************************************)
(* The count statement, of the first page or the next.                     *)
(***************************************************************************)
LEMMA CountStep ==
  ASSUME SearchInv, NEW f \in Filters, NEW limit \in PageLimits, NEW offset \in Nat,
         CountFor(f, limit, offset)
  PROVE  SearchInv'
<1>1. search' = Searching("counted", f, limit, offset, Cardinality(Matching(f)), << >>)
  BY DEF CountFor, Searching
<1>2. DOMAIN search'.rows = {}
  BY <1>1 DEF Searching
<1>3. catalog' = catalog /\ moments' = {catalog} /\ IsFiniteSet({catalog})
  BY FS_Singleton DEF CountFor
<1> QED BY <1>1, <1>2, <1>3 DEF SearchInv

(***************************************************************************)
(* The invariant of a search.                                              *)
(***************************************************************************)
LEMMA SearchInvariant == SearchSpec => []SearchInv
<1>1. SearchInit => SearchInv
  BY DEF SearchInit, SearchInv
<1>2. SearchInv /\ [SearchNext]_searchVars => SearchInv'
  <2> SUFFICES ASSUME SearchInv, [SearchNext]_searchVars PROVE SearchInv'
    OBVIOUS
  <2>1. ASSUME NEW f \in Filters, NEW n \in PageLimits, Ask(f, n) PROVE SearchInv'
    BY <2>1, CountStep DEF Ask
  <2>2. CASE ReadPage
    BY <2>2, ReadPageStep
  <2>3. CASE Answer
    <3>1. search # NoSearch
      BY <2>3 DEF Answer, NoSearch
    <3>asked. PICK stage \in {"counted", "read", "answered"}, f \in Filters, limit \in PageLimits,
                   offset \in Nat : \E total, rows : search = Searching(stage, f, limit, offset, total, rows)
      BY <3>1 DEF SearchInv
    <3>2. PICK total, rows : search = Searching(stage, f, limit, offset, total, rows)
      BY <3>asked
    <3>3. search' = Searching("answered", f, limit, offset, total, rows)
      BY <2>3, <3>2 DEF Answer, Searching
    <3>4. search'.rows = search.rows /\ search'.filter = search.filter
      BY <3>2, <3>3 DEF Searching
    <3>5. UNCHANGED << catalog, moments >>
      BY <2>3 DEF Answer
    <3> QED BY <3>1, <3>3, <3>4, <3>5 DEF SearchInv, StoodIn
  <2>4. CASE Turn
    <3>1. search # NoSearch
      BY <2>4 DEF Turn, NoSearch
    <3>asked. PICK stage \in {"counted", "read", "answered"}, f \in Filters, limit \in PageLimits,
                   offset \in Nat : \E total, rows : search = Searching(stage, f, limit, offset, total, rows)
      BY <3>1 DEF SearchInv
    <3>2. PICK total, rows : search = Searching(stage, f, limit, offset, total, rows)
      BY <3>asked
    <3>3. search.filter = f /\ search.limit = limit /\ search.offset = offset
      BY <3>2 DEF Searching
    <3>4. offset + limit \in Nat
      BY PageAssumption
    <3>5. CountFor(f, limit, offset + limit)
      BY <2>4, <3>3 DEF Turn
    <3> QED BY <3>4, <3>5, CountStep
  <2>5. ASSUME NEW i \in ProductIds, NEW p \in Listed, Write(i, p) PROVE SearchInv'
    <3>1. catalog' \in [ProductIds -> Listed] /\ search' = search
      BY <2>5 DEF Write, SearchInv
    <3>2. CASE search = NoSearch
      <4>1. moments' = moments
        BY <2>5, <3>2 DEF Write, NoSearch
      <4> QED BY <3>1, <3>2, <4>1 DEF SearchInv
    <3>3. CASE search # NoSearch
      <4>1. search.stage # "idle"
        BY <3>3 DEF SearchInv, Searching
      <4>2. moments' = moments \cup {catalog'}
        BY <2>5, <4>1 DEF Write
      <4>3. IsFiniteSet(moments')
        BY <3>3, <4>2, FS_AddElement DEF SearchInv
      <4> QED BY <3>1, <3>3, <4>2, <4>3 DEF SearchInv, StoodIn
    <3> QED BY <3>2, <3>3
  <2>6. CASE UNCHANGED searchVars
    BY <2>6 DEF searchVars, SearchInv, StoodIn
  <2> QED BY <2>1, <2>2, <2>3, <2>4, <2>5, <2>6 DEF SearchNext
<1> QED BY <1>1, <1>2, PTL DEF SearchSpec

\* The page in hand is one of one catalog, the total counts one catalog.
PageInv ==
  search # NoSearch =>
    /\ \E m \in moments : search.total = Cardinality(MatchingIn(m, search.filter))
    /\ \E m \in moments : search.stage # "counted" => IsPageOf(m, search)

(***************************************************************************)
(* The statement that reads a page reads it from the catalog as it is.     *)
(***************************************************************************)
LEMMA ReadIsPage ==
  ASSUME SearchInv, ReadPage
  PROVE  IsPageOf(catalog, search') /\ search'.filter = search.filter /\ search'.total = search.total
<1>1. search # NoSearch
  BY DEF ReadPage, NoSearch
<1>asked. PICK stage \in {"counted", "read", "answered"}, f \in Filters, limit \in PageLimits,
               offset \in Nat : \E total, rows : search = Searching(stage, f, limit, offset, total, rows)
  BY <1>1 DEF SearchInv
<1>2. PICK total, rows : search = Searching(stage, f, limit, offset, total, rows)
  BY <1>asked
<1>3. search.filter = f /\ search.limit = limit /\ search.offset = offset /\ search.total = total
  BY <1>2 DEF Searching
<1>4. PICK s \in Orders(Matching(search.filter)) :
        LET page == PageOf(s, search.limit, search.offset) IN
        search' = [search EXCEPT !.stage = "read",
                                 !.rows = [n \in DOMAIN page |-> Candidate(page[n], catalog[page[n]])]]
  BY DEF ReadPage
<1> DEFINE page == PageOf(s, limit, offset)
           new  == [n \in DOMAIN page |-> Candidate(page[n], catalog[page[n]])]
           k    == Cardinality(Matching(f))
<1>5. search' = Searching("read", f, limit, offset, total, new)
  BY <1>2, <1>3, <1>4 DEF Searching
<1>6. /\ search'.filter = f /\ search'.limit = limit /\ search'.offset = offset
      /\ search'.total = total /\ search'.rows = new
  BY <1>5 DEF Searching
<1>7. IsFiniteSet(Matching(f)) /\ Matching(f) \subseteq ProductIds
  BY ProductAssumption, FS_Subset DEF Matching, MatchingIn
<1>8. k \in Nat /\ limit \in Nat
  BY <1>7, FS_CardinalityType, PageAssumption
<1>9. page = [n \in 1 .. (Last(offset, limit, k) - offset) |-> s[n + offset]]
  BY <1>3, <1>8, PageIsPiece
<1>10. \A n \in DOMAIN page : page[n] \in Matching(f)
  BY <1>3, <1>8, PageRowsMatch
<1>11. DOMAIN new = {n \in 1 .. limit : offset + n <= k}
  <2> HIDE DEF k, page
  <2>1. DOMAIN new = 1 .. (Last(offset, limit, k) - offset)
    BY <1>9
  <2> HIDE DEF new
  <2> QED BY <1>8, <2>1 DEF Last
<1>12. \A n \in DOMAIN new :
         /\ new[n].id = page[n] /\ new[n].price = catalog[page[n]].price
         /\ new[n] = Candidate(page[n], catalog[page[n]]) /\ page[n] \in Matching(f)
  BY <1>10 DEF Candidate
<1>13. \A n \in DOMAIN new :
         /\ catalog[new[n].id].active /\ SqlMatches(catalog[new[n].id], f)
         /\ new[n] = Candidate(new[n].id, catalog[new[n].id])
  <2> HIDE DEF new, page
  <2>1. \A i \in Matching(f) : SqlMatches(catalog[i], f)
    BY DEF Matching, MatchingIn
  <2>2. \A i \in Matching(f) : catalog[i].active
    BY <2>1, Zenon DEF SqlMatches
  <2> QED BY <1>12, <2>1, <2>2
<1>14. ASSUME NEW j \in DOMAIN new, NEW n \in DOMAIN new, j < n
       PROVE  new[j].id # new[n].id /\ new[j].price <= new[n].price
  <2> HIDE DEF k
  <2>1. j \in 1 .. limit /\ n \in 1 .. limit /\ offset + j <= k /\ offset + n <= k
    BY <1>11
  <2>2. page[j] = s[j + offset] /\ page[n] = s[n + offset]
    BY <1>9
  <2>3. j + offset \in 1 .. k /\ n + offset \in 1 .. k /\ j + offset < n + offset
    BY <1>8, <1>14, <2>1
  <2>4. \A x, y \in 1 .. k : x < y => s[x] # s[y] /\ catalog[s[x]].price <= catalog[s[y]].price
    BY <1>3, Zenon DEF Orders, k
  <2>5. page[j] # page[n] /\ catalog[page[j]].price <= catalog[page[n]].price
    BY <2>2, <2>3, <2>4
  <2> HIDE DEF new, page
  <2> QED BY <1>12, <2>5
<1> HIDE DEF new, page, k
<1>16. DOMAIN new = {n \in 1 .. limit : offset + n <= Cardinality(MatchingIn(catalog, f))}
  BY <1>11 DEF k, Matching
<1>17. IsPageOf(catalog, search')
  BY <1>6, <1>13, <1>14, <1>16 DEF IsPageOf
<1> QED BY <1>3, <1>6, <1>17

(***************************************************************************)
(* Whatever is written, a request keeps a page and a count of catalogs     *)
(* there were since it began.                                              *)
(***************************************************************************)
LEMMA PageInvariant == SearchSpec => []PageInv
<1>1. SearchInit => PageInv
  BY DEF SearchInit, PageInv
<1>2. SearchInv /\ PageInv /\ [SearchNext]_searchVars => PageInv'
  <2> SUFFICES ASSUME SearchInv, PageInv, [SearchNext]_searchVars PROVE PageInv'
    OBVIOUS
  <2>1. ASSUME NEW f \in Filters, NEW limit, NEW offset, CountFor(f, limit, offset) PROVE PageInv'
    <3>1. /\ search'.stage = "counted" /\ search'.filter = f /\ moments' = {catalog}
          /\ search'.total = Cardinality(MatchingIn(catalog, f))
      BY <2>1 DEF CountFor, Matching
    <3> QED BY <3>1 DEF PageInv
  <2>2. CASE ReadPage
    <3>1. search # NoSearch
      BY <2>2 DEF ReadPage, NoSearch
    <3>2. catalog' = catalog /\ moments' = moments /\ catalog \in moments
      BY <2>2, <3>1 DEF ReadPage, SearchInv
    <3>3. IsPageOf(catalog, search') /\ search'.filter = search.filter /\ search'.total = search.total
      BY <2>2, ReadIsPage
    <3>4. \E m \in moments : search.total = Cardinality(MatchingIn(m, search.filter))
      BY <3>1 DEF PageInv
    <3> QED BY <3>2, <3>3, <3>4 DEF PageInv
  <2>3. CASE Answer
    <3>1. search.stage = "read" /\ search # NoSearch
      BY <2>3 DEF Answer, NoSearch
    <3>2. /\ search'.rows = search.rows /\ search'.filter = search.filter /\ search'.total = search.total
          /\ search'.limit = search.limit /\ search'.offset = search.offset
      BY <2>3 DEF Answer
    <3>3. moments' = moments
      BY <2>3 DEF Answer
    <3> QED BY <3>1, <3>2, <3>3 DEF PageInv, IsPageOf
  <2>4. ASSUME NEW i \in ProductIds, NEW p \in Listed, Write(i, p) PROVE PageInv'
    <3>1. search' = search /\ (search # NoSearch => moments \subseteq moments')
      BY <2>4 DEF Write, NoSearch, SearchInv, Searching
    <3> QED BY <3>1 DEF PageInv, IsPageOf
  <2>5. CASE Turn
    <3>1. search # NoSearch
      BY <2>5 DEF Turn, NoSearch
    <3>2. search.filter \in Filters
      BY <3>1 DEF SearchInv, Searching
    <3> QED BY <2>1, <2>5, <3>2 DEF Turn
  <2>6. CASE UNCHANGED searchVars
    BY <2>6 DEF searchVars, PageInv, IsPageOf
  <2> QED BY <2>1, <2>2, <2>3, <2>4, <2>5, <2>6 DEF SearchNext, Ask
<1> QED BY <1>1, <1>2, SearchInvariant, PTL DEF SearchSpec

(***************************************************************************)
(* The second filter drops a row of the database only for a list that      *)
(* contains what was asked for and is another list.                        *)
(***************************************************************************)
THEOREM RecheckNarrows == SearchSpec => []RecheckOnlyNarrowsAttributes
<1>1. SearchInv => RecheckOnlyNarrowsAttributes
  <2> SUFFICES ASSUME SearchInv, search.stage \in {"read", "answered"}, NEW n \in DOMAIN search.rows
               PROVE  LET c == search.rows[n] IN
                      \/ Recheck(c, search.filter)
                      \/ Includes(c.attributes, search.filter.attributes) /\ Differs(c, search.filter)
    BY DEF RecheckOnlyNarrowsAttributes
  <2> DEFINE c == search.rows[n]
             f == search.filter
  <2>1. PICK m \in moments : StoodIn(c, m)
    BY DEF SearchInv, NoSearch
  <2> DEFINE p == m[c.id]
  <2>2. SqlMatches(p, f) /\ c = Candidate(c.id, p)
    BY <2>1 DEF StoodIn
  <2> HIDE DEF c, f, p
  <2>3. /\ c.merchant = p.merchant /\ c.category = p.category /\ c.price = p.price
        /\ c.warranty = p.warranty /\ c.refurbished = p.refurbished /\ c.attributes = p.attributes
        /\ c.available = IF p.stock = Unset THEN 0 ELSE p.stock
    BY <2>2 DEF Candidate
  <2>4. Includes(c.attributes, f.attributes)
    BY <2>2, <2>3, Zenon DEF SqlMatches
  <2>5. f.in_stock_only => c.available > 0
    BY <2>2, <2>3 DEF SqlMatches
  <2>6. ASSUME ~ Differs(c, f) PROVE Recheck(c, f)
    <3>1. attributes_match(c.attributes, f.attributes)
      BY <2>4, <2>6 DEF attributes_match, Includes, Differs
    <3> QED BY <2>2, <2>3, <2>5, <3>1, Zenon DEF Recheck, SqlMatches
  <2> QED BY <2>4, <2>6 DEF c, f
<1> QED BY <1>1, SearchInvariant, PTL

(***************************************************************************)
(* The rows of a page are a page of one catalog there was during the       *)
(* request, and the total counts the matches of one.                       *)
(***************************************************************************)
THEOREM PagesAreFaithful == SearchSpec => []PageIsFaithful
<1>1. SearchInv /\ PageInv => PageIsFaithful
  <2> SUFFICES ASSUME SearchInv, PageInv, search.stage \in {"read", "answered"}
               PROVE  /\ \E m \in moments : IsPageOf(m, search)
                      /\ \E m \in moments : search.total = Cardinality(MatchingIn(m, search.filter))
                      /\ Cardinality(moments) = 1 =>
                           moments = {catalog} /\ \A n \in DOMAIN search.rows :
                                                     get_product(search.rows[n].id) = {search.rows[n]}
    BY DEF PageIsFaithful
  <2>1. /\ search # NoSearch /\ catalog \in moments /\ IsFiniteSet(moments)
        /\ \A n \in DOMAIN search.rows : \E m \in moments : StoodIn(search.rows[n], m)
    BY DEF SearchInv, NoSearch
  <2>2. PICK m \in moments : IsPageOf(m, search)
    BY <2>1 DEF PageInv
  <2>3. ASSUME Cardinality(moments) = 1, NEW n \in DOMAIN search.rows
        PROVE  moments = {catalog} /\ get_product(search.rows[n].id) = {search.rows[n]}
    <3> DEFINE c == search.rows[n]
    <3>1. PICK x : moments = {x}
      BY <2>1, <2>3, FS_Singleton
    <3>2. moments = {catalog} /\ m = catalog
      BY <2>1, <2>2, <3>1
    <3>3. c.id \in ProductIds
      BY <2>1 DEF StoodIn
    <3>4. catalog[c.id].active /\ c = Candidate(c.id, catalog[c.id])
      BY <2>2, <3>2 DEF IsPageOf
    <3>5. {j \in ProductIds : j = c.id /\ catalog[j].active} = {c.id}
      BY <3>3, <3>4
    <3> QED BY <3>2, <3>4, <3>5, Zenon DEF get_product
  <2>4. Cardinality(moments) = 1 => moments = {catalog}
    BY <2>1, FS_Singleton
  <2> QED BY <2>1, <2>2, <2>3, <2>4 DEF PageInv
<1> QED BY <1>1, SearchInvariant, PageInvariant, PTL

-----------------------------------------------------------------------------
(* A walk through the pages of a search.                                   *)

(***************************************************************************)
(* A row that matches and holds no more than was asked for passes the      *)
(* second filter.                                                          *)
(***************************************************************************)
LEMMA MatchesPass ==
  ASSUME NEW i, NEW p, NEW f, SqlMatches(p, f), ~ Differs(p, f)
  PROVE  Recheck(Candidate(i, p), f)
<1> DEFINE c == Candidate(i, p)
<1>1. /\ c.merchant = p.merchant /\ c.category = p.category /\ c.price = p.price
      /\ c.warranty = p.warranty /\ c.refurbished = p.refurbished /\ c.attributes = p.attributes
      /\ c.available = IF p.stock = Unset THEN 0 ELSE p.stock
  BY DEF Candidate
<1> HIDE DEF c
<1>2. attributes_match(c.attributes, f.attributes)
  BY <1>1 DEF attributes_match, SqlMatches, Includes, Differs
<1>3. f.in_stock_only => c.available > 0
  BY <1>1 DEF SqlMatches
<1>4. Recheck(c, f)
  BY <1>1, <1>2, <1>3, Zenon DEF Recheck, SqlMatches
<1> QED BY <1>4 DEF c

(***************************************************************************)
(* There are k numbers from 1 to k.                                        *)
(***************************************************************************)
LEMMA CountUpTo == ASSUME NEW k \in Nat PROVE Cardinality(1 .. k) = k
<1> DEFINE K == 1 .. k
<1>1. Cardinality(K) = k
  BY FS_Interval
<1> QED BY <1>1

(***************************************************************************)
(* Rows that all pass are all kept, each where it was.                     *)
(***************************************************************************)
LEMMA AllKept ==
  ASSUME NEW m \in Nat, NEW rows, rows = [n \in 1 .. m |-> rows[n]], NEW f,
         \A n \in 1 .. m : Recheck(rows[n], f)
  PROVE  stage3_recheck(rows, f) = rows
<1>1. PICK N : N = {n \in DOMAIN rows : Recheck(rows[n], f)} /\ N = 1 .. m
  <2>1. DOMAIN rows = 1 .. m
    OBVIOUS
  <2> QED BY <2>1
<1>2. Cardinality(N) = m /\ \A k \in N : Cardinality(1 .. k) = k
  <2>1. N \subseteq Nat
    BY <1>1
  <2> QED BY <1>1, <2>1, CountUpTo, Zenon
<1>3. \A k \in N : {j \in N : j <= k} = 1 .. k
  BY <1>1
<1>4. \A n \in N : (CHOOSE k \in N : Cardinality({j \in N : j <= k}) = n) = n
  BY <1>2, <1>3
<1>5. stage3_recheck(rows, f)
        = [n \in 1 .. Cardinality(N) |-> rows[CHOOSE k \in N : Cardinality({j \in N : j <= k}) = n]]
  BY <1>1 DEF stage3_recheck
<1>6. stage3_recheck(rows, f) = [n \in N |-> rows[n]]
  BY <1>1, <1>2, <1>4, <1>5
<1> QED BY <1>1, <1>6

\* Products of these have different prices.
PricedApart(S) ==
  /\ S \subseteq ProductIds /\ IsFiniteSet(S)
  /\ \A i \in S : catalog[i].price \in Nat
  /\ \A i, j \in S : catalog[i].price = catalog[j].price => i = j

(***************************************************************************)
(* An order of products with different prices rises strictly and misses    *)
(* none of them.                                                           *)
(***************************************************************************)
LEMMA OrdersRise ==
  ASSUME NEW S, PricedApart(S), NEW s \in Orders(S)
  PROVE  /\ Cardinality(S) \in Nat /\ s \in [1 .. Cardinality(S) -> S]
         /\ \A m, n \in 1 .. Cardinality(S) : m < n => catalog[s[m]].price < catalog[s[n]].price
         /\ \A i \in S : \E n \in 1 .. Cardinality(S) : s[n] = i
<1>1. PICK N \in Nat : N = Cardinality(S)
  BY FS_CardinalityType DEF PricedApart
<1>2. s \in [1 .. N -> S] /\ \A m, n \in 1 .. N :
        m < n => s[m] # s[n] /\ catalog[s[m]].price <= catalog[s[n]].price
  BY <1>1 DEF Orders
<1>3. \A m, n \in 1 .. N : m < n => catalog[s[m]].price < catalog[s[n]].price
  BY <1>2 DEF PricedApart
<1>4. \A m, n \in 1 .. N : s[m] = s[n] => m = n
  BY <1>2
<1>5. PICK D : D = 1 .. N
  OBVIOUS
<1>6. s \in Injection(D, S)
  BY <1>2, <1>4, <1>5 DEF Injection, IsInjective
<1>7. IsFiniteSet(S) /\ Cardinality(D) = N
  BY <1>5, FS_Interval DEF PricedApart
<1>8. s \in Surjection(D, S)
  BY <1>1, <1>6, <1>7, FS_Injection
<1>9. \A i \in S : \E n \in D : s[n] = i
  BY <1>8 DEF Surjection
<1> QED BY <1>1, <1>2, <1>3, <1>5, <1>9

Cheaper(S, i) == {j \in S : catalog[j].price < catalog[i].price}

(***************************************************************************)
(* The n-th product of an order has n - 1 cheaper ones.                    *)
(***************************************************************************)
LEMMA CheaperThan ==
  ASSUME NEW S, PricedApart(S), NEW s \in Orders(S), NEW n \in 1 .. Cardinality(S)
  PROVE  Cardinality(Cheaper(S, s[n])) = n - 1
<1>1. PICK N \in Nat : N = Cardinality(S)
  BY OrdersRise
<1>2. PICK A : A = 1 .. (n - 1)
  OBVIOUS
<1>3. PICK B : B = Cheaper(S, s[n]) /\ B = {j \in S : catalog[j].price < catalog[s[n]].price}
  BY DEF Cheaper
<1>4. /\ s \in [1 .. N -> S] /\ n \in 1 .. N
      /\ \A m, k \in 1 .. N : m < k => catalog[s[m]].price < catalog[s[k]].price
      /\ \A i \in S : \E m \in 1 .. N : s[m] = i
      /\ \A i \in S : catalog[i].price \in Nat
  BY <1>1, OrdersRise DEF PricedApart
<1> DEFINE f == [m \in A |-> s[m]]
<1>5. f \in [A -> B]
  BY <1>2, <1>3, <1>4
<1>6. \A m, k \in A : f[m] = f[k] => m = k
  <2> SUFFICES ASSUME NEW m \in A, NEW k \in A, m # k PROVE s[m] # s[k]
    OBVIOUS
  <2>1. m \in 1 .. N /\ k \in 1 .. N /\ (m < k \/ k < m)
    BY <1>2, <1>4
  <2>2. catalog[s[m]].price \in Nat /\ catalog[s[k]].price \in Nat
    BY <1>4, <2>1
  <2> QED BY <1>4, <2>1, <2>2
<1>7. \A i \in B : \E m \in A : f[m] = i
  <2> SUFFICES ASSUME NEW i \in B PROVE \E m \in A : s[m] = i
    OBVIOUS
  <2>1. PICK m \in 1 .. N : s[m] = i
    BY <1>3, <1>4
  <2>2. catalog[s[m]].price < catalog[s[n]].price
    BY <1>3, <2>1
  <2>3. m < n
    BY <1>4, <2>1, <2>2
  <2> QED BY <1>2, <2>1, <2>3
<1>8. f \in Bijection(A, B)
  <2> HIDE DEF f
  <2> QED BY <1>5, <1>6, <1>7 DEF Bijection, Injection, Surjection, IsInjective
<1>9. IsFiniteSet(A) /\ Cardinality(A) = n - 1
  BY <1>2, <1>4, FS_Interval
<1> QED BY <1>3, <1>8, <1>9, FS_Bijection DEF ExistsBijection

(***************************************************************************)
(* Products with different prices come in one order only.                  *)
(***************************************************************************)
LEMMA OrdersAreOne ==
  ASSUME NEW S, PricedApart(S), NEW s \in Orders(S), NEW t \in Orders(S)
  PROVE  s = t
<1>1. PICK N \in Nat : N = Cardinality(S)
  BY OrdersRise
<1>2. s \in [1 .. N -> S] /\ t \in [1 .. N -> S]
  BY <1>1, OrdersRise
<1>3. ASSUME NEW n \in 1 .. N PROVE s[n] = t[n]
  <2>1. PICK m \in 1 .. N : s[m] = t[n]
    BY <1>1, <1>2, OrdersRise
  <2>2. m - 1 = n - 1
    BY <1>1, <2>1, CheaperThan
  <2> QED BY <2>1, <2>2
<1> QED BY <1>2, <1>3

\* The first k products of an order, and those behind the first `offset', as
\* candidates.
Shown(s, k) == [n \in 1 .. k |-> Candidate(s[n], catalog[s[n]])]

Piece(s, offset, last) ==
  [n \in 1 .. (last - offset) |-> Candidate(s[n + offset], catalog[s[n + offset]])]

\* Where the walk is: the client has what comes before this page, in the one
\* order there is, or this page too if it was answered.
WalkIs(stage, f, limit, offset, total, rows) ==
  /\ total = Cardinality(Matching(f)) /\ offset <= total
  /\ stage = "counted" =>
       \/ offset = 0 /\ seen = << >>
       \/ \E s \in Orders(Matching(f)) : seen = Shown(s, offset)
  /\ stage = "read" =>
       \E s \in Orders(Matching(f)) :
         seen = Shown(s, offset) /\ rows = Piece(s, offset, Last(offset, limit, total))
  /\ stage = "answered" =>
       \E s \in Orders(Matching(f)) : seen = Shown(s, Last(offset, limit, total))

WalkInv ==
  /\ writes \in Nat
  /\ (search # NoSearch /\ writes = 0 /\ Unambiguous(search.filter)) =>
       WalkIs(search.stage, search.filter, search.limit, search.offset, search.total, search.rows)

(***************************************************************************)
(* Matches that are told apart by their prices.                            *)
(***************************************************************************)
LEMMA MatchesArePriced ==
  ASSUME SearchInv, NEW f, Unambiguous(f)
  PROVE  PricedApart(Matching(f)) /\ Cardinality(Matching(f)) \in Nat
<1>1. Matching(f) \subseteq ProductIds /\ IsFiniteSet(Matching(f))
  BY ProductAssumption, FS_Subset DEF Matching, MatchingIn
<1>2. \A i \in ProductIds : catalog[i].price \in Nat
  BY ListedAssumption DEF SearchInv, RowType
<1>3. Cardinality(Matching(f)) \in Nat
  BY <1>1, FS_CardinalityType
<1> QED BY <1>1, <1>2, <1>3 DEF PricedApart, Unambiguous
(***************************************************************************)
(* What the definitions say of the catalog they keep saying while nobody   *)
(* writes to it.                                                           *)
(***************************************************************************)
LEMMA WalkKept ==
  ASSUME catalog' = catalog, NEW stage, NEW f, NEW limit, NEW offset, NEW total, NEW rows
  PROVE  /\ Matching(f)' = Matching(f) /\ (Unambiguous(f)' <=> Unambiguous(f))
         /\ \A S : Orders(S)' = Orders(S)
         /\ \A s, k : Shown(s, k)' = Shown(s, k)
         /\ seen' = seen => (WalkIs(stage, f, limit, offset, total, rows)'
                               <=> WalkIs(stage, f, limit, offset, total, rows))
<1>1. Matching(f)' = Matching(f)
  BY DEF Matching, MatchingIn
<1>2. Unambiguous(f)' <=> Unambiguous(f)
  BY <1>1 DEF Unambiguous
<1>3. \A S : Orders(S)' = Orders(S)
  BY DEF Orders
<1>4. \A s, k : Shown(s, k)' = Shown(s, k)
  BY DEF Shown
<1>5. \A s, k : Piece(s, offset, k)' = Piece(s, offset, k)
  BY DEF Piece
<1>6. seen' = seen => (WalkIs(stage, f, limit, offset, total, rows)'
                         <=> WalkIs(stage, f, limit, offset, total, rows))
  BY <1>1, <1>3, <1>4, <1>5 DEF WalkIs
<1> QED BY <1>1, <1>2, <1>3, <1>4, <1>6

(***************************************************************************)
(* The request that is under way, by its parts.                            *)
(***************************************************************************)
LEMMA RequestIs ==
  ASSUME SearchInv, search # NoSearch
  PROVE  \E stage \in {"counted", "read", "answered"}, f \in Filters, limit \in PageLimits,
            offset \in Nat : \E total, rows :
           search = Searching(stage, f, limit, offset, total, rows)
BY DEF SearchInv

(***************************************************************************)
(* The count opens a walk or moves it on to the next page.                 *)
(***************************************************************************)
LEMMA CountWalks ==
  ASSUME WalkInv, NEW f, NEW limit, NEW offset \in Nat, CountFor(f, limit, offset),
         (writes = 0 /\ Unambiguous(f)) =>
           /\ offset <= Cardinality(Matching(f))
           /\ (offset = 0 /\ seen' = << >>)
                \/ (seen' = seen /\ \E s \in Orders(Matching(f)) : seen = Shown(s, offset))
  PROVE  WalkInv'
<1>1. PICK n : n = Cardinality(Matching(f))
  OBVIOUS
<1>2. search' = Searching("counted", f, limit, offset, n, << >>)
  BY <1>1 DEF CountFor, Searching
<1>3. /\ search'.stage = "counted" /\ search'.filter = f /\ search'.limit = limit
      /\ search'.offset = offset /\ search'.total = n /\ search'.rows = << >>
  BY <1>2 DEF Searching
<1>4. catalog' = catalog /\ writes' = writes
  BY DEF CountFor
<1>5. ASSUME writes = 0, Unambiguous(f)' PROVE WalkIs("counted", f, limit, offset, n, << >>)'
  BY <1>1, <1>4, <1>5, WalkKept DEF WalkIs
<1> QED BY <1>3, <1>4, <1>5 DEF WalkInv

(***************************************************************************)
(* The page that is read follows on what the client has.                   *)
(***************************************************************************)
LEMMA ReadWalks == ASSUME SearchInv, WalkInv, ReadPage PROVE WalkInv'
<1>1. search # NoSearch /\ search.stage = "counted"
  BY DEF ReadPage, NoSearch
<1>asked. PICK stage \in {"counted", "read", "answered"}, f \in Filters, limit \in PageLimits,
               offset \in Nat : \E total, rows : search = Searching(stage, f, limit, offset, total, rows)
  BY <1>1, RequestIs
<1>2. PICK total, rows : search = Searching(stage, f, limit, offset, total, rows)
  BY <1>asked
<1>3. /\ search.filter = f /\ search.limit = limit /\ search.offset = offset
      /\ search.total = total /\ search.rows = rows
  BY <1>2 DEF Searching
<1>4. PICK s \in Orders(Matching(search.filter)) :
        LET page == PageOf(s, search.limit, search.offset) IN
        search' = [search EXCEPT !.stage = "read",
                                 !.rows = [n \in DOMAIN page |-> Candidate(page[n], catalog[page[n]])]]
  BY DEF ReadPage
<1>5. PICK page : page = PageOf(s, limit, offset)
  OBVIOUS
<1>6. PICK new : new = [n \in DOMAIN page |-> Candidate(page[n], catalog[page[n]])]
  OBVIOUS
<1>order. s \in Orders(Matching(f))
  BY <1>3, <1>4
<1>7. search' = Searching("read", f, limit, offset, total, new)
  BY <1>2, <1>3, <1>4, <1>5, <1>6 DEF Searching
<1>8. /\ search'.stage = "read" /\ search'.filter = f /\ search'.limit = limit
      /\ search'.offset = offset /\ search'.total = total /\ search'.rows = new
  BY <1>7 DEF Searching
<1>9. catalog' = catalog /\ writes' = writes /\ seen' = seen
  BY DEF ReadPage
<1>10. ASSUME writes = 0, Unambiguous(f) PROVE WalkIs("read", f, limit, offset, total, new)
  <2>1. /\ total = Cardinality(Matching(f)) /\ offset <= total
        /\ \/ offset = 0 /\ seen = << >>
           \/ \E t \in Orders(Matching(f)) : seen = Shown(t, offset)
    BY <1>1, <1>3, <1>10 DEF WalkInv, WalkIs
  <2>2. PricedApart(Matching(f)) /\ Cardinality(Matching(f)) \in Nat
    BY <1>10, MatchesArePriced
  <2>3. seen = Shown(s, offset)
    <3>1. ASSUME NEW t \in Orders(Matching(f)), seen = Shown(t, offset) PROVE seen = Shown(s, offset)
      <4>1. t = s
        BY <1>order, <2>2, <3>1, OrdersAreOne
      <4> QED BY <3>1, <4>1
    <3>2. Shown(s, 0) = << >>
      BY DEF Shown
    <3> QED BY <2>1, <3>1, <3>2
  <2>4. page = [n \in 1 .. (Last(offset, limit, total) - offset) |-> s[n + offset]]
    BY <1>order, <1>5, <2>1, <2>2, PageIsPiece, PageAssumption
  <2>5. new = Piece(s, offset, Last(offset, limit, total))
    BY <1>6, <2>4 DEF Piece
  <2> QED BY <1>order, <2>1, <2>3, <2>5 DEF WalkIs
<1>11. ASSUME writes = 0, Unambiguous(f)' PROVE WalkIs("read", f, limit, offset, total, new)'
  BY <1>9, <1>10, <1>11, WalkKept
<1> QED BY <1>8, <1>9, <1>11 DEF WalkInv

(***************************************************************************)
(* The second filter keeps the page, and the client gets it whole.         *)
(***************************************************************************)
LEMMA AnswerWalks == ASSUME SearchInv, WalkInv, Answer PROVE WalkInv'
<1>1. search # NoSearch /\ search.stage = "read"
  BY DEF Answer, NoSearch
<1>asked. PICK stage \in {"counted", "read", "answered"}, f \in Filters, limit \in PageLimits,
               offset \in Nat : \E total, rows : search = Searching(stage, f, limit, offset, total, rows)
  BY <1>1, RequestIs
<1>2. PICK total, rows : search = Searching(stage, f, limit, offset, total, rows)
  BY <1>asked
<1>3. /\ search.filter = f /\ search.limit = limit /\ search.offset = offset
      /\ search.total = total /\ search.rows = rows
  BY <1>2 DEF Searching
<1>4. search' = Searching("answered", f, limit, offset, total, rows)
  BY <1>2 DEF Answer, Searching
<1>5. /\ search'.stage = "answered" /\ search'.filter = f /\ search'.limit = limit
      /\ search'.offset = offset /\ search'.total = total /\ search'.rows = rows
  BY <1>4 DEF Searching
<1>6. catalog' = catalog /\ writes' = writes /\ seen' = seen \o stage3_recheck(rows, f)
  BY <1>3 DEF Answer
<1>7. ASSUME writes = 0, Unambiguous(f)
      PROVE  /\ total = Cardinality(Matching(f)) /\ offset <= total
             /\ \E s \in Orders(Matching(f)) : seen' = Shown(s, Last(offset, limit, total))
  <2>1. /\ total = Cardinality(Matching(f)) /\ offset <= total
        /\ \E s \in Orders(Matching(f)) :
             seen = Shown(s, offset) /\ rows = Piece(s, offset, Last(offset, limit, total))
    BY <1>1, <1>3, <1>7 DEF WalkInv, WalkIs
  <2>2. PICK s \in Orders(Matching(f)) :
          seen = Shown(s, offset) /\ rows = Piece(s, offset, Last(offset, limit, total))
    BY <2>1
  <2>3. total \in Nat /\ s \in [1 .. total -> Matching(f)]
    BY <1>7, <2>1, MatchesArePriced, OrdersRise
  <2>4. PICK last : last = Last(offset, limit, total)
    OBVIOUS
  <2>5. last \in Nat /\ offset <= last /\ last <= total
    BY <2>1, <2>3, <2>4, PageAssumption DEF Last
  <2>6. PICK m \in Nat : m = last - offset
    BY <2>5
  <2>7. rows = [n \in 1 .. m |-> Candidate(s[n + offset], catalog[s[n + offset]])]
    BY <2>2, <2>4, <2>6 DEF Piece
  <2>8. \A n \in 1 .. m : Recheck(rows[n], f)
    <3> TAKE n \in 1 .. m
    <3>1. s[n + offset] \in Matching(f)
      BY <2>3, <2>5, <2>6
    <3>2. SqlMatches(catalog[s[n + offset]], f) /\ ~ Differs(catalog[s[n + offset]], f)
      BY <1>7, <3>1 DEF Matching, MatchingIn, Unambiguous
    <3> QED BY <2>7, <3>2, MatchesPass
  <2>9. stage3_recheck(rows, f) = rows
    <3>1. rows = [n \in 1 .. m |-> rows[n]]
      BY <2>7
    <3> QED BY <2>8, <3>1, AllKept
  <2>10. seen \o rows = Shown(s, last)
    <3>1. seen = [n \in 1 .. offset |-> Candidate(s[n], catalog[s[n]])]
      BY <2>2 DEF Shown
    <3>2. PICK C : C = [n \in 1 .. total |-> Candidate(s[n], catalog[s[n]])]
      OBVIOUS
    <3>a. \A n \in 1 .. total : C[n] = Candidate(s[n], catalog[s[n]])
      BY <3>2
    <3>b. /\ \A n \in 1 .. offset : n \in 1 .. total
          /\ \A n \in 1 .. m : n + offset \in 1 .. total
          /\ \A n \in 1 .. last : n \in 1 .. total
      BY <2>3, <2>5, <2>6
    <3>3. seen = [n \in 1 .. offset |-> C[n]] /\ rows = [n \in 1 .. m |-> C[n + offset]]
      BY <2>7, <3>1, <3>a, <3>b
    <3>4. Shown(s, last) = [n \in 1 .. last |-> C[n]]
      BY <3>a, <3>b DEF Shown
    <3>5. seen \o rows = [n \in 1 .. last |-> C[n]]
      BY <2>5, <2>6, <3>3
    <3> QED BY <3>4, <3>5
  <2> QED BY <1>6, <2>1, <2>2, <2>4, <2>9, <2>10
<1>8. ASSUME writes = 0, Unambiguous(f)' PROVE WalkIs("answered", f, limit, offset, total, rows)'
  <2>1. Unambiguous(f)
    BY <1>6, <1>8, WalkKept
  <2>2. PICK s \in Orders(Matching(f)) : seen' = Shown(s, Last(offset, limit, total))
    BY <1>7, <1>8, <2>1
  <2>3. Matching(f)' = Matching(f) /\ Orders(Matching(f))' = Orders(Matching(f))
    BY <1>6, WalkKept DEF Orders
  <2>4. Shown(s, Last(offset, limit, total))' = Shown(s, Last(offset, limit, total))
    BY <1>6 DEF Shown
  <2> QED BY <1>7, <1>8, <2>1, <2>2, <2>3, <2>4 DEF WalkIs
<1> QED BY <1>5, <1>6, <1>8 DEF WalkInv

(***************************************************************************)
(* The walk keeps its place.                                               *)
(***************************************************************************)
LEMMA WalkInvariant == SearchSpec => []WalkInv
<1>1. SearchInit => WalkInv
  BY DEF SearchInit, WalkInv
<1>2. SearchInv /\ WalkInv /\ [SearchNext]_searchVars => WalkInv'
  <2> SUFFICES ASSUME SearchInv, WalkInv, [SearchNext]_searchVars PROVE WalkInv'
    OBVIOUS
  <2>1. ASSUME NEW f \in Filters, NEW n \in PageLimits, Ask(f, n) PROVE WalkInv'
    <3>1. CountFor(f, n, 0) /\ seen' = << >>
      BY <2>1 DEF Ask
    <3>2. Unambiguous(f) => 0 <= Cardinality(Matching(f))
      BY MatchesArePriced
    <3> QED BY <3>1, <3>2, CountWalks
  <2>2. CASE ReadPage
    BY <2>2, ReadWalks
  <2>3. CASE Answer
    BY <2>3, AnswerWalks
  <2>4. CASE Turn
    <3>1. search # NoSearch /\ search.stage = "answered"
      BY <2>4 DEF Turn, NoSearch
    <3>asked. PICK stage \in {"counted", "read", "answered"}, f \in Filters, limit \in PageLimits,
                   offset \in Nat : \E total, rows : search = Searching(stage, f, limit, offset, total, rows)
      BY <3>1, RequestIs
    <3>2. PICK total, rows : search = Searching(stage, f, limit, offset, total, rows)
      BY <3>asked
    <3>3. /\ search.filter = f /\ search.limit = limit /\ search.offset = offset
          /\ search.total = total /\ search.rows = rows
      BY <3>2 DEF Searching
    <3>4. CountFor(f, limit, offset + limit) /\ seen' = seen /\ offset + limit < total
      BY <2>4, <3>3 DEF Turn
    <3>5. offset + limit \in Nat
      BY PageAssumption
    <3>6. ASSUME writes = 0, Unambiguous(f)
          PROVE  /\ offset + limit <= Cardinality(Matching(f))
                 /\ \E s \in Orders(Matching(f)) : seen = Shown(s, offset + limit)
      <4>1. WalkIs("answered", f, limit, offset, total, rows)
        BY <3>1, <3>3, <3>6 DEF WalkInv
      <4>2. total \in Nat
        BY <3>6, <4>1, MatchesArePriced DEF WalkIs
      <4> QED BY <3>4, <3>5, <4>1, <4>2 DEF WalkIs, Last
    <3> QED BY <3>4, <3>5, <3>6, CountWalks
  <2>5. ASSUME NEW i \in ProductIds, NEW p \in Listed, Write(i, p) PROVE WalkInv'
    <3>1. CASE search = NoSearch
      <4>1. search' = NoSearch /\ writes' = writes
        BY <2>5, <3>1 DEF Write, NoSearch
      <4> QED BY <4>1 DEF WalkInv
    <3>2. CASE search # NoSearch
      <4>1. search.stage # "idle"
        BY <3>2 DEF SearchInv, Searching
      <4>2. writes' = writes + 1
        BY <2>5, <4>1 DEF Write
      <4> QED BY <4>2 DEF WalkInv
    <3> QED BY <3>1, <3>2
  <2>6. CASE UNCHANGED searchVars
    <3>1. catalog' = catalog /\ search' = search /\ seen' = seen /\ writes' = writes
      BY <2>6 DEF searchVars
    <3>2. CASE search = NoSearch
      BY <3>1, <3>2 DEF WalkInv
    <3>3. CASE search # NoSearch
      <4>asked. PICK stage \in {"counted", "read", "answered"}, f \in Filters, limit \in PageLimits,
                     offset \in Nat : \E total, rows : search = Searching(stage, f, limit, offset, total, rows)
        BY <3>3, RequestIs
      <4>1. PICK total, rows : search = Searching(stage, f, limit, offset, total, rows)
        BY <4>asked
      <4>2. /\ search.stage = stage /\ search.filter = f /\ search.limit = limit
            /\ search.offset = offset /\ search.total = total /\ search.rows = rows
        BY <4>1 DEF Searching
      <4> QED BY <3>1, <3>3, <4>2, WalkKept DEF WalkInv
    <3> QED BY <3>2, <3>3
  <2> QED BY <2>1, <2>2, <2>3, <2>4, <2>5, <2>6 DEF SearchNext
<1> QED BY <1>1, <1>2, SearchInvariant, PTL DEF SearchSpec

(***************************************************************************)
(* A client that walks through all pages of a catalog nobody writes to,    *)
(* whose matches have different prices, receives every match once and in   *)
(* the order of the prices.                                                *)
(***************************************************************************)
THEOREM WalksAreComplete == SearchSpec => []WalkIsComplete
<1>1. SearchInv /\ WalkInv => WalkIsComplete
  <2> SUFFICES ASSUME SearchInv, WalkInv, Walked, writes = 0, Unambiguous(search.filter)
               PROVE  /\ Len(seen) = search.total
                      /\ {seen[n] : n \in DOMAIN seen}
                           = {Candidate(i, catalog[i]) : i \in Matching(search.filter)}
                      /\ \A m, n \in DOMAIN seen : m < n => seen[m].price < seen[n].price
    BY DEF WalkIsComplete
  <2>1. search # NoSearch /\ search.stage = "answered"
    BY DEF Walked, NoSearch
  <2>2. PICK M : M = Matching(search.filter)
    OBVIOUS
  <2>3. PICK N \in Nat : N = Cardinality(M)
    BY <2>2, MatchesArePriced
  <2>4. search.total = N /\ search.offset + search.limit >= N
    BY <2>1, <2>2, <2>3 DEF WalkInv, WalkIs, Walked
  <2>5. Last(search.offset, search.limit, search.total) = N
    <3>1. search.offset \in Nat /\ search.limit \in Nat
      BY <2>1, RequestIs, PageAssumption DEF Searching
    <3> QED BY <2>4, <3>1 DEF Last
  <2>6. PICK s \in Orders(M) : seen = Shown(s, N)
    BY <2>1, <2>2, <2>5 DEF WalkInv, WalkIs
  <2>7. /\ s \in [1 .. N -> M]
        /\ \A m, n \in 1 .. N : m < n => catalog[s[m]].price < catalog[s[n]].price
        /\ \A i \in M : \E n \in 1 .. N : s[n] = i
    BY <2>2, <2>3, MatchesArePriced, OrdersRise
  <2>8. seen = [n \in 1 .. N |-> Candidate(s[n], catalog[s[n]])]
    BY <2>6 DEF Shown
  <2>9. Len(seen) = N /\ DOMAIN seen = 1 .. N
    BY <2>8
  <2>10. {seen[n] : n \in DOMAIN seen} = {Candidate(i, catalog[i]) : i \in M}
    BY <2>7, <2>8, <2>9
  <2>11. \A n \in 1 .. N : seen[n].price = catalog[s[n]].price
    BY <2>8 DEF Candidate
  <2>12. \A m, n \in 1 .. N : m < n => seen[m].price < seen[n].price
    BY <2>7, <2>11
  <2> QED BY <2>2, <2>4, <2>9, <2>10, <2>12
<1> QED BY <1>1, SearchInvariant, WalkInvariant, PTL

-----------------------------------------------------------------------------
(* Middleware.                                                             *)

OwnId == IF call.id = "none" THEN FreshId ELSE call.id

Secured ==
  SecurityHeaders \subseteq reply.headers /\ ("hsts" \in reply.headers <=> settings.production)

Reply(kind, headers, id) == [kind |-> kind, headers |-> headers, id |-> id]

\* The id is known from the CORS layer inward; on the way out it is in the
\* reply once the reply has left the correlation layer, and the headers once
\* it has left the security layer.
HttpInv ==
  /\ layer \in 0 .. 6
  /\ settings \in [enforce_https : BOOLEAN, production : BOOLEAN]
  /\ reply = Reply(reply.kind, reply.headers, reply.id)
  /\ way = "in" => /\ call \in Calls /\ reply = NoReply
                   /\ layer >= 5 => state_id = OwnId
  /\ way = "out" => /\ reply.kind \in {"redirect", "preflight", "ok", "refused"}
                    /\ reply.kind = "redirect" => layer = 0
                    /\ reply.kind # "redirect" =>
                         /\ state_id = OwnId
                         /\ layer < 4 => reply.id = OwnId
                         /\ layer >= 2 => "hsts" \notin reply.headers
                         /\ layer < 2 => Secured
  /\ (way = "done" /\ reply # NoReply) =>
        /\ reply.kind # "redirect" => reply.id = OwnId
        /\ reply.kind \in {"ok", "refused", "preflight"} => Secured

(***************************************************************************)
(* A reply on its way out, made by one of the layers.                      *)
(***************************************************************************)
LEMMA AnsweredAs ==
  ASSUME HttpInv, way = "in", NEW kind \in {"redirect", "preflight", "ok", "refused"}, Answers(kind)
  PROVE  /\ reply' = Reply(kind, {}, "none")
         /\ way' = "out" /\ layer' = layer - 1
         /\ UNCHANGED << call, settings, state_id >>
<1>1. reply' = Reply(kind, {}, "none")
  BY DEF Answers, NoReply, Reply
<1> QED BY <1>1 DEF Answers

(***************************************************************************)
(* Every step of a request keeps the invariant.                            *)
(***************************************************************************)
LEMMA HttpStep == HttpInv /\ [HttpNext]_httpVars => HttpInv'
<1> SUFFICES ASSUME HttpInv, [HttpNext]_httpVars PROVE HttpInv'
  OBVIOUS
<1> USE DEF HttpInv
<1>1. ASSUME NEW c \in Calls, NEW s \in [enforce_https : BOOLEAN, production : BOOLEAN], Enters(c, s)
      PROVE  HttpInv'
  BY <1>1 DEF Enters
<1>2. CASE Redirects
  <2>1. way = "in" /\ layer = 1 /\ Answers("redirect")
    BY <1>2 DEF Redirects, At, Layers
  <2>2. /\ reply' = Reply("redirect", {}, "none")
        /\ way' = "out" /\ layer' = 0 /\ UNCHANGED << call, settings, state_id >>
    BY <2>1, AnsweredAs
  <2> QED BY <2>2 DEF Reply
<1>3. CASE PassesHttps \/ SwallowsCsrf \/ PassesSecurity \/ PassesTiming
  <2>1. way = "in" /\ layer \in 1 .. 3 /\ Inward /\ UNCHANGED state_id
    BY <1>3 DEF PassesHttps, SwallowsCsrf, PassesSecurity, PassesTiming, At, Layers
  <2> QED BY <2>1 DEF Inward
<1>4. CASE Correlates
  <2>1. way = "in" /\ layer = 4 /\ Inward /\ state_id' = OwnId
    BY <1>4 DEF Correlates, SetsId, At, Layers, OwnId
  <2> QED BY <2>1 DEF Inward, OwnId
<1>5. CASE Preflight \/ RouteAnswers
  <2>1. way = "in" /\ layer \in {5, 6}
    BY <1>5 DEF Preflight, RouteAnswers, At, Layers
  <2>2. PICK kind \in {"preflight", "ok", "refused"} : Answers(kind)
    BY <1>5 DEF Preflight, RouteAnswers
  <2>3. /\ reply' = Reply(kind, {}, "none")
        /\ way' = "out" /\ layer' = layer - 1 /\ UNCHANGED << call, settings, state_id >>
    BY <2>1, <2>2, AnsweredAs
  <2> QED BY <2>1, <2>3 DEF OwnId, Reply
<1>6. CASE PassesCors
  <2>1. way = "in" /\ layer = 5 /\ Inward /\ UNCHANGED state_id
    BY <1>6 DEF PassesCors, At, Layers
  <2> QED BY <2>1 DEF Inward, OwnId
<1>7. CASE RouteRaises
  <2>1. way = "in" /\ layer = 6 /\ state_id = OwnId
    BY <1>7 DEF RouteRaises, At, Layers
  <2>2. reply' = Reply("error", {}, OwnId)
    BY <1>7, <2>1 DEF RouteRaises, NoReply, Reply
  <2>3. way' = "done" /\ layer' = 0 /\ UNCHANGED << call, settings, state_id >>
    BY <1>7 DEF RouteRaises
  <2> QED BY <2>1, <2>2, <2>3 DEF OwnId, Reply
<1>8. CASE UNCHANGED httpVars
  BY <1>8 DEF httpVars, OwnId, Secured
<1>9. CASE Outward
  <2>1. way = "out" /\ UNCHANGED << call, settings, state_id >>
    BY <1>9 DEF Outward
  <2>2. CASE layer = 0
    <3>1. way' = "done" /\ UNCHANGED << layer, reply >>
      BY <1>9, <2>2 DEF Outward
    <3> QED BY <2>1, <2>2, <3>1 DEF OwnId, Secured
  <2>3. CASE layer \in 1 .. 6
    <3> DEFINE more == Added(Layers[layer])
               id   == IF Layers[layer] = "correlation" THEN state_id ELSE reply.id
    <3>1. layer' = layer - 1 /\ way' = "out"
      BY <1>9, <2>1, <2>3 DEF Outward
    <3>2. reply' = Reply(reply.kind, reply.headers \cup more, id)
      <4>1. reply' = [reply EXCEPT !.headers = @ \cup more, !.id = id]
        <5> HIDE DEF HttpInv
        <5>1. layer # 0
          BY <2>3
        <5> QED BY <1>9, <5>1, Zenon DEF Outward
      <4>2. PICK k, h, i : reply = Reply(k, h, i)
        OBVIOUS
      <4> HIDE DEF more, id, HttpInv
      <4> QED BY <4>1, <4>2 DEF Reply
    <3>3. (Layers[layer] = "correlation" <=> layer = 4) /\ (Layers[layer] = "security" <=> layer = 2)
      BY <2>3 DEF Layers
    <3>4. /\ layer = 2 => more = SecurityHeaders \cup {h \in {"hsts"} : settings.production}
          /\ layer # 2 => more \subseteq {"process-time"}
      <4>1. CASE layer = 2
        BY <3>3, <4>1 DEF Added
      <4>2. CASE layer = 3
        BY <4>2 DEF Added, Layers
      <4>3. CASE layer \in {1, 4, 5, 6}
        BY <4>3 DEF Added, Layers
      <4> QED BY <2>3, <4>1, <4>2, <4>3
    <3>6. reply.kind # "redirect" /\ state_id = OwnId
      BY <2>1, <2>3
    <3>7. (layer = 4 => id = OwnId) /\ (layer # 4 => id = reply.id)
      BY <3>3, <3>6
    <3> HIDE DEF more, id
    <3>8. /\ reply'.kind = reply.kind /\ reply'.headers = reply.headers \cup more /\ reply'.id = id
          /\ reply' = Reply(reply'.kind, reply'.headers, reply'.id)
      BY <3>2 DEF Reply
    <3>9. layer' < 4 => reply'.id = OwnId
      BY <2>1, <2>3, <3>1, <3>6, <3>7, <3>8
    <3>10. "hsts" \notin SecurityHeaders
      BY DEF SecurityHeaders
    <3>11. layer' >= 2 => "hsts" \notin reply'.headers
      BY <2>1, <2>3, <3>1, <3>4, <3>6, <3>8
    <3>12. layer' < 2 => Secured'
      <4>1. CASE layer = 2
        BY <2>1, <3>4, <3>6, <3>8, <3>10, <4>1 DEF Secured
      <4>2. CASE layer = 1
        BY <2>1, <3>4, <3>6, <3>8, <3>10, <4>2 DEF Secured
      <4> QED BY <2>3, <3>1, <4>1, <4>2
    <3> QED BY <2>1, <2>3, <3>1, <3>6, <3>8, <3>9, <3>11, <3>12 DEF OwnId
  <2> QED BY <2>2, <2>3
<1> QED BY <1>1, <1>2, <1>3, <1>4, <1>5, <1>6, <1>7, <1>8, <1>9 DEF HttpNext

(***************************************************************************)
(* The middleware's invariant.                                             *)
(***************************************************************************)
LEMMA HttpInvariant == HttpSpec => []HttpInv
<1>1. HttpInit => HttpInv
  BY DEF HttpInit, HttpInv, NoReply, Reply
<1> QED BY <1>1, HttpStep, PTL DEF HttpSpec

(***************************************************************************)
(* Every reply but a redirect names the id its request is known by.        *)
(***************************************************************************)
THEOREM RepliesCanBeTraced == HttpSpec => []RepliesAreTraceable
<1>1. HttpInv => RepliesAreTraceable
  BY DEF HttpInv, RepliesAreTraceable, Finished, OwnId
<1> QED BY <1>1, HttpInvariant, PTL

(***************************************************************************)
(* What a route or the CORS layer answers carries the security headers.    *)
(***************************************************************************)
THEOREM RepliesAreSecured == HttpSpec => []AnswersAreSecured
<1>1. HttpInv => AnswersAreSecured
  BY DEF HttpInv, AnswersAreSecured, Finished, Secured
<1> QED BY <1>1, HttpInvariant, PTL

-----------------------------------------------------------------------------
(* Negotiation.                                                            *)

(***************************************************************************)
(* A strict partial order has a minimal element in every non-empty set of  *)
(* positions of a list.                                                    *)
(***************************************************************************)
LEMMA MinimalExists ==
  ASSUME NEW n \in Nat, NEW S \in SUBSET (1 .. n), S # {}, NEW R,
         \A i \in S : << i, i >> \notin R,
         \A i, j, k \in S : << i, j >> \in R /\ << j, k >> \in R => << i, k >> \in R
  PROVE  \E i \in S : \A j \in S : << j, i >> \notin R
<1> DEFINE Upto(k) == {i \in S : i <= k}
           Minimal(T) == \E i \in T : \A j \in T : << j, i >> \notin R
           Without == {k \in Nat : Upto(k) # {} /\ ~ Minimal(Upto(k))}
<1>1. \A i \in S : i \in Nat /\ 0 < i /\ i <= n
  OBVIOUS
<1>2. Without = {}
  <2> SUFFICES ASSUME Without # {} PROVE FALSE
    OBVIOUS
  <2>1. PICK k \in Without : \A j \in Without : ~ (<< j, k >> \in OpToRel(<, Nat))
    <3>1. Without \subseteq Nat
      OBVIOUS
    <3> HIDE DEF Without
    <3> QED BY <3>1, NatLessThanWellFounded, WFMin
  <2>2. k \in Nat /\ Upto(k) # {} /\ ~ Minimal(Upto(k))
    <3> HIDE DEF Minimal, Upto
    <3> QED OBVIOUS
  <2>3. k # 0 /\ k - 1 \in Nat
    <3>1. PICK i \in S : i <= k
      <4> HIDE DEF Minimal
      <4> QED BY <2>2
    <3> HIDE DEF Minimal, Upto
    <3> QED BY <1>1, <2>2, <3>1
  <2>4. k - 1 \notin Without
    <3> HIDE DEF Without
    <3>1. << k - 1, k >> \in OpToRel(<, Nat)
      BY <2>2, <2>3 DEF OpToRel
    <3> QED BY <2>1, <3>1
  <2>5. Upto(k - 1) = {} \/ Minimal(Upto(k - 1))
    <3> HIDE DEF Minimal, Upto
    <3> QED BY <2>3, <2>4
  <2>6. \A i \in S : i <= k <=> (i <= k - 1 \/ i = k)
    BY <1>1, <2>2
  <2>7. /\ k \in S => Upto(k) = Upto(k - 1) \cup {k}
        /\ k \notin S => Upto(k) = Upto(k - 1)
    <3>1. \A i : i \in Upto(k) <=> i \in S /\ (i <= k - 1 \/ i = k)
      BY <2>6
    <3>2. \A i : i \in Upto(k - 1) <=> i \in S /\ i <= k - 1
      OBVIOUS
    <3> HIDE DEF Upto, Without, Minimal
    <3>3. k \in S => \A i : i \in Upto(k) <=> i \in Upto(k - 1) \cup {k}
      BY <3>1, <3>2, Zenon
    <3>4. k \notin S => \A i : i \in Upto(k) <=> i \in Upto(k - 1)
      BY <3>1, <3>2, Zenon
    <3> QED BY <3>3, <3>4
  <2>8. Upto(k - 1) \subseteq S
    OBVIOUS
  <2> HIDE DEF Upto, Without
  <2>9. CASE k \notin S \/ Upto(k - 1) = {}
    BY <2>2, <2>5, <2>7, <2>9
  <2>10. CASE k \in S /\ Upto(k - 1) # {}
    <3>1. PICK i \in Upto(k - 1) : \A j \in Upto(k - 1) : << j, i >> \notin R
      BY <2>5, <2>10
    <3>2. CASE << k, i >> \notin R
      BY <2>2, <2>7, <2>10, <3>1, <3>2
    <3>3. CASE << k, i >> \in R
      <4>1. \A j \in Upto(k - 1) : << j, k >> \notin R
        BY <2>8, <2>10, <3>1, <3>3
      <4> QED BY <2>2, <2>7, <2>10, <4>1
    <3> QED BY <3>2, <3>3
  <2> QED BY <2>9, <2>10
<1>3. Upto(n) = S
  BY <1>1
<1>4. n \notin Without
  BY <1>2
<1> HIDE DEF Upto, Minimal
<1>5. Minimal(S)
  BY <1>3, <1>4
<1> QED BY <1>5 DEF Minimal

(***************************************************************************)
(* The orders of offers, spelled out.                                      *)
(***************************************************************************)
LEMMA OrdersSpelledOut ==
  ASSUME NEW a \in OfferType, NEW b \in OfferType
  PROVE  /\ RanksBefore(a, b) <=>
              \/ a.total < b.total
              \/ a.total = b.total /\ a.shipping_days < b.shipping_days
              \/ a.total = b.total /\ a.shipping_days = b.shipping_days /\ a.warranty > b.warranty
         /\ ComesBefore(a, b) <=>
              \/ RanksBefore(a, b)
              \/ /\ a.total = b.total /\ a.shipping_days = b.shipping_days /\ a.warranty = b.warranty
                 /\ a.window > b.window
         /\ offer_dominates(a, b) => ComesBefore(a, b)
         /\ ComesBefore(a, b) => RanksBefore(a, b) \/ offer_dominates(a, b)
<1>1. /\ a.total \in Int /\ a.shipping_days \in Int /\ a.warranty \in Int /\ a.window \in Int
      /\ b.total \in Int /\ b.shipping_days \in Int /\ b.warranty \in Int /\ b.window \in Int
  BY DEF OfferType
<1>2. \A x : /\ criteria(x)[1] = x.total /\ criteria(x)[2] = x.shipping_days
             /\ criteria(x)[3] = - x.warranty /\ criteria(x)[4] = - x.window
  BY DEF criteria
<1>3. \A i \in 1 .. 3 : 1 .. (i - 1) = {k \in {1, 2} : k < i}
  OBVIOUS
<1>4. RanksBefore(a, b) <=>
        \/ criteria(a)[1] < criteria(b)[1]
        \/ criteria(a)[1] = criteria(b)[1] /\ criteria(a)[2] < criteria(b)[2]
        \/ criteria(a)[1] = criteria(b)[1] /\ criteria(a)[2] = criteria(b)[2]
             /\ criteria(a)[3] < criteria(b)[3]
  BY DEF RanksBefore
<1>5. ComesBefore(a, b) <=>
        \/ RanksBefore(a, b)
        \/ /\ criteria(a)[1] = criteria(b)[1] /\ criteria(a)[2] = criteria(b)[2]
           /\ criteria(a)[3] = criteria(b)[3] /\ criteria(a)[4] < criteria(b)[4]
  BY <1>4 DEF ComesBefore
<1>6. offer_dominates(a, b) <=>
        /\ criteria(a)[1] <= criteria(b)[1] /\ criteria(a)[2] <= criteria(b)[2]
        /\ criteria(a)[3] <= criteria(b)[3] /\ criteria(a)[4] <= criteria(b)[4]
        /\ \/ criteria(a)[1] < criteria(b)[1] \/ criteria(a)[2] < criteria(b)[2]
           \/ criteria(a)[3] < criteria(b)[3] \/ criteria(a)[4] < criteria(b)[4]
  BY DEF offer_dominates
<1> QED BY <1>1, <1>2, <1>4, <1>5, <1>6

(***************************************************************************)
(* Coming before, and coming before in the first three criteria, are       *)
(* strict orders; offers that neither come before the other agree in the   *)
(* criteria compared.                                                      *)
(***************************************************************************)
LEMMA OrdersAreStrict ==
  ASSUME NEW a \in OfferType, NEW b \in OfferType, NEW c \in OfferType
  PROVE  /\ ~ ComesBefore(a, a) /\ ~ RanksBefore(a, a)
         /\ ComesBefore(a, b) /\ ComesBefore(b, c) => ComesBefore(a, c)
         /\ RanksBefore(a, b) /\ RanksBefore(b, c) => RanksBefore(a, c)
         /\ RanksBefore(a, b) => ~ RanksBefore(b, a)
         /\ RanksBefore(a, b) => RanksBefore(a, c) \/ RanksBefore(c, b)
<1>1. \A x \in {a, b, c} : /\ x.total \in Int /\ x.shipping_days \in Int
                           /\ x.warranty \in Int /\ x.window \in Int
  BY DEF OfferType
<1>2. \A x, y \in {a, b, c} :
        /\ RanksBefore(x, y) <=>
              \/ x.total < y.total
              \/ x.total = y.total /\ x.shipping_days < y.shipping_days
              \/ x.total = y.total /\ x.shipping_days = y.shipping_days /\ x.warranty > y.warranty
        /\ ComesBefore(x, y) <=>
              \/ RanksBefore(x, y)
              \/ /\ x.total = y.total /\ x.shipping_days = y.shipping_days /\ x.warranty = y.warranty
                 /\ x.window > y.window
  BY OrdersSpelledOut
<1> QED BY <1>1, <1>2

(***************************************************************************)
(* In every non-empty part of a list some offer has none before it.        *)
(***************************************************************************)
LEMMA LeastExists ==
  ASSUME NEW list \in Seq(OfferType), NEW T \in SUBSET (1 .. Len(list)), T # {}
  PROVE  \E i \in T : \A j \in T : ~ ComesBefore(list[j], list[i])
<1> DEFINE R == {p \in (1 .. Len(list)) \X (1 .. Len(list)) : ComesBefore(list[p[1]], list[p[2]])}
<1>1. \A i, j \in T : << i, j >> \in R <=> ComesBefore(list[i], list[j])
  OBVIOUS
<1>2. \A i \in T : list[i] \in OfferType
  OBVIOUS
<1>3. Len(list) \in Nat
  OBVIOUS
<1> HIDE DEF R
<1>4. /\ \A i \in T : << i, i >> \notin R
      /\ \A i, j, k \in T : << i, j >> \in R /\ << j, k >> \in R => << i, k >> \in R
  BY <1>1, <1>2, OrdersAreStrict
<1>5. \E i \in T : \A j \in T : << j, i >> \notin R
  BY <1>3, <1>4, MinimalExists
<1> QED BY <1>1, <1>5

(***************************************************************************)
(* The head of the stable sort exists: it ranks before every other, or     *)
(* ranks the same and stands before it.                                    *)
(***************************************************************************)
LEMMA ForemostExists ==
  ASSUME NEW list \in Seq(OfferType), NEW S \in SUBSET (1 .. Len(list)), S # {}
  PROVE  \E i \in S : /\ Foremost(list, S) = list[i]
                      /\ \A j \in S : ~ RanksBefore(list[j], list[i])
<1> DEFINE First(i, j) == \/ RanksBefore(list[i], list[j])
                          \/ ~ RanksBefore(list[j], list[i]) /\ i < j
           R == {p \in (1 .. Len(list)) \X (1 .. Len(list)) : First(p[1], p[2])}
<1>1. \A i, j \in S : << i, j >> \in R <=> First(i, j)
  OBVIOUS
<1>2. \A i \in S : list[i] \in OfferType /\ i \in Nat
  OBVIOUS
<1>3. Len(list) \in Nat
  OBVIOUS
<1> HIDE DEF R
<1>4. \A i \in S : ~ First(i, i)
  BY <1>2, OrdersAreStrict
<1>5. \A i, j, k \in S : First(i, j) /\ First(j, k) => First(i, k)
  <2> SUFFICES ASSUME NEW i \in S, NEW j \in S, NEW k \in S, First(i, j), First(j, k)
               PROVE  First(i, k)
    OBVIOUS
  <2> DEFINE a == list[i]
             b == list[j]
             c == list[k]
  <2>1. a \in OfferType /\ b \in OfferType /\ c \in OfferType
    BY <1>2
  <2>2. /\ RanksBefore(a, b) \/ (~ RanksBefore(b, a) /\ i < j)
        /\ RanksBefore(b, c) \/ (~ RanksBefore(c, b) /\ j < k)
    OBVIOUS
  <2>3. /\ RanksBefore(a, b) /\ RanksBefore(b, c) => RanksBefore(a, c)
        /\ RanksBefore(a, b) => RanksBefore(a, c) \/ RanksBefore(c, b)
        /\ RanksBefore(b, c) => RanksBefore(b, a) \/ RanksBefore(a, c)
        /\ RanksBefore(c, a) => RanksBefore(c, b) \/ RanksBefore(b, a)
    BY <2>1, OrdersAreStrict
  <2>4. RanksBefore(b, c) => ~ RanksBefore(c, b)
    BY <2>1, OrdersAreStrict
  <2>5. RanksBefore(a, b) => ~ RanksBefore(b, a)
    BY <2>1, OrdersAreStrict
  <2> HIDE DEF a, b, c
  <2>6. RanksBefore(a, c) \/ (~ RanksBefore(c, a) /\ i < k)
    BY <1>2, <2>2, <2>3, <2>4, <2>5
  <2> QED BY <2>6 DEF a, c
<1>6. PICK i \in S : \A j \in S : ~ First(j, i)
  <2> HIDE DEF First
  <2>1. /\ \A i \in S : << i, i >> \notin R
        /\ \A i, j, k \in S : << i, j >> \in R /\ << j, k >> \in R => << i, k >> \in R
    BY <1>1, <1>4, <1>5
  <2>2. \E i \in S : \A j \in S : << j, i >> \notin R
    BY <1>3, <2>1, MinimalExists
  <2> QED BY <1>1, <2>2
<1>7. \A j \in S \ {i} : First(i, j)
  BY <1>2, <1>6
<1> DEFINE q == CHOOSE x \in S : \A j \in S \ {x} : First(x, j)
<1>8. q \in S /\ \A j \in S \ {q} : First(q, j)
  <2> HIDE DEF First
  <2> QED BY <1>7
<1>9. Foremost(list, S) = list[q]
  BY DEF Foremost
<1> HIDE DEF q
<1>10. \A j \in S : ~ RanksBefore(list[j], list[q])
  BY <1>2, <1>8, OrdersAreStrict
<1> QED BY <1>8, <1>9, <1>10

(***************************************************************************)
(* What a round with an acceptable offer makes the best: pruning keeps an  *)
(* offer that none comes before, and an offer ranked first that another    *)
(* comes before in the last criterion would have been dominated.           *)
(***************************************************************************)
LEMMA BestOfRound ==
  ASSUME NEW list \in Seq(OfferType), NEW c, Passing(list, c) # {}
  PROVE  /\ Surviving(list, c) # {}
         /\ \E i \in Passing(list, c) :
              /\ Foremost(list, Surviving(list, c)) = list[i]
              /\ \A j \in Passing(list, c) : ~ ComesBefore(list[j], list[i])
<1> DEFINE P == Passing(list, c)
           S == Surviving(list, c)
<1>1. P \in SUBSET (1 .. Len(list)) /\ S \in SUBSET P
  BY DEF Passing, Surviving
<1>2. \A i \in P : list[i] \in OfferType
  BY <1>1
<1>3. \A i \in P : (\A j \in P : ~ ComesBefore(list[j], list[i])) => i \in S
  BY <1>2, OrdersSpelledOut DEF Surviving
<1>4. \A i \in S, j \in P : j # i => ~ offer_dominates(list[j], list[i])
  BY DEF Surviving
<1> HIDE DEF P, S
<1>5. S # {}
  BY <1>1, <1>3, LeastExists DEF P
<1>6. PICK i \in S : /\ Foremost(list, S) = list[i]
                     /\ \A j \in S : ~ RanksBefore(list[j], list[i])
  BY <1>1, <1>5, ForemostExists
<1> DEFINE T == {j \in P : ComesBefore(list[j], list[i])}
<1>7. T = {}
  <2> SUFFICES ASSUME T # {} PROVE FALSE
    OBVIOUS
  <2>1. T \in SUBSET (1 .. Len(list)) /\ T \subseteq P
    BY <1>1
  <2>2. PICK j \in T : \A k \in T : ~ ComesBefore(list[k], list[j])
    BY <2>1, LeastExists
  <2>3. j \in P /\ i \in P /\ ComesBefore(list[j], list[i])
    BY <1>1
  <2>4. \A k \in P : ~ ComesBefore(list[k], list[j])
    BY <1>2, <2>2, <2>3, OrdersAreStrict
  <2>5. j \in S
    BY <1>3, <2>3, <2>4
  <2>6. offer_dominates(list[j], list[i])
    BY <1>2, <1>6, <2>3, <2>5, OrdersSpelledOut
  <2>7. j # i
    BY <1>2, <2>3, OrdersAreStrict
  <2> QED BY <1>4, <2>3, <2>6, <2>7
<1>8. \A j \in P : ~ ComesBefore(list[j], list[i])
  BY <1>7
<1> QED BY <1>1, <1>5, <1>6, <1>8 DEF P, S

\* Before a session is opened nothing was offered.
NegotiationInv ==
  /\ rounds \in Seq(Lists)
  /\ status = Absent => rounds = << >> /\ best = Absent
  /\ BestIsOptimal

(***************************************************************************)
(* Some positions of a list have a last one.                               *)
(***************************************************************************)
LEMMA LatestExists ==
  ASSUME NEW n \in Nat, NEW S \in SUBSET (1 .. n), S # {}
  PROVE  \E i \in S : \A j \in S : j <= i
<1> DEFINE R == {p \in (1 .. n) \X (1 .. n) : p[1] > p[2]}
<1>1. \A i, j \in S : << i, j >> \in R <=> i > j
  OBVIOUS
<1>2. \A i \in S : i \in Nat
  OBVIOUS
<1> HIDE DEF R
<1>3. /\ \A i \in S : << i, i >> \notin R
      /\ \A i, j, k \in S : << i, j >> \in R /\ << j, k >> \in R => << i, k >> \in R
  BY <1>1, <1>2
<1>4. PICK i \in S : \A j \in S : << j, i >> \notin R
  BY <1>3, MinimalExists
<1>5. \A j \in S : ~ (j > i)
  BY <1>1, <1>4
<1> QED BY <1>2, <1>5

\* The acceptable offers of a list under constraints c.
Fitting(list, c) == {o \in Offered(list) : Meets(o, c)}

(***************************************************************************)
(* A round that is evaluated.                                              *)
(***************************************************************************)
LEMMA RoundStep ==
  ASSUME NegotiationInv, NEW list \in Lists, EvaluateRound(list)
  PROVE  NegotiationInv'
<1> DEFINE k == Len(rounds) + 1
           P == Passing(list, constraints)
           S == Surviving(list, constraints)
<1>1. rounds \in Seq(Lists) /\ Len(rounds) \in Nat
  BY DEF NegotiationInv
<1>2. /\ rounds' \in Seq(Lists) /\ Len(rounds') = k /\ rounds'[k] = list
      /\ \A r \in 1 .. Len(rounds) : rounds'[r] = rounds[r]
  BY <1>1 DEF EvaluateRound
<1>3. constraints' = constraints /\ status' = status /\ status # Absent
  BY DEF EvaluateRound
<1>4. list \in Seq(OfferType)
  BY OfferAssumption
<1>5. Fitting(list, constraints) = {list[i] : i \in P}
  BY DEF Fitting, Offered, Passing
<1>6. best' = IF S = {} THEN best ELSE Foremost(list, S)
  BY DEF EvaluateRound
<1>7. /\ Decisive = {r \in 1 .. Len(rounds) : Fitting(rounds[r], constraints) # {}}
      /\ Decisive' = {r \in 1 .. k : Fitting(rounds'[r], constraints) # {}}
  BY <1>2, <1>3 DEF Decisive, Acceptable, Fitting
<1>8. \A r \in 1 .. Len(rounds) : Fitting(rounds'[r], constraints) = Fitting(rounds[r], constraints)
  BY <1>2
<1>9. BestIsOptimal =
        IF Decisive = {} THEN best = Absent
        ELSE LET r == CHOOSE r \in Decisive : \A s \in Decisive : s <= r
             IN /\ best \in Fitting(rounds[r], constraints)
                /\ \A o \in Fitting(rounds[r], constraints) : ~ ComesBefore(o, best)
  BY DEF BestIsOptimal, Acceptable, Fitting
<1>10. BestIsOptimal' =
        IF Decisive' = {} THEN best' = Absent
        ELSE LET r == CHOOSE r \in Decisive' : \A s \in Decisive' : s <= r
             IN /\ best' \in Fitting(rounds'[r], constraints)
                /\ \A o \in Fitting(rounds'[r], constraints) : ~ ComesBefore(o, best')
  BY <1>3 DEF BestIsOptimal, Acceptable, Fitting
<1> HIDE DEF P, S
<1>11. BestIsOptimal
  BY DEF NegotiationInv
<1>12. CASE P = {}
  <2>1. S = {} /\ best' = best
    BY <1>6, <1>12 DEF S, P, Surviving
  <2>2. Decisive' = Decisive /\ Decisive \subseteq 1 .. Len(rounds)
    BY <1>1, <1>2, <1>5, <1>7, <1>8, <1>12
  <2>3. CASE Decisive = {}
    BY <1>2, <1>3, <1>9, <1>10, <1>11, <2>1, <2>2, <2>3 DEF NegotiationInv
  <2>4. CASE Decisive # {}
    <3> DEFINE r == CHOOSE r \in Decisive : \A s \in Decisive : s <= r
    <3>1. r \in Decisive /\ \A s \in Decisive : s <= r
      BY <1>1, <2>2, <2>4, LatestExists
    <3>2. r \in 1 .. Len(rounds)
      BY <2>2, <3>1
    <3>3. Fitting(rounds'[r], constraints) = Fitting(rounds[r], constraints)
      BY <1>8, <3>2
    <3>4. /\ best \in Fitting(rounds[r], constraints)
          /\ \A o \in Fitting(rounds[r], constraints) : ~ ComesBefore(o, best)
      BY <1>9, <1>11, <2>4
    <3>5. r = CHOOSE x \in Decisive' : \A s \in Decisive' : s <= x
      BY <2>2
    <3> HIDE DEF r
    <3>6. BestIsOptimal'
      BY <1>10, <2>1, <2>2, <2>4, <3>3, <3>4, <3>5
    <3> QED BY <1>2, <1>3, <3>6 DEF NegotiationInv
  <2> QED BY <2>3, <2>4
<1>13. CASE P # {}
  <2>1. PICK i \in P : /\ best' = list[i]
                       /\ \A j \in P : ~ ComesBefore(list[j], list[i])
    BY <1>4, <1>6, <1>13, BestOfRound DEF P, S
  <2>2. k \in Decisive' /\ \A s \in Decisive' : s <= k
    <3>1. Fitting(rounds'[k], constraints) # {}
      BY <1>2, <1>5, <1>13
    <3>2. k \in 1 .. k
      BY <1>1
    <3>3. \A s \in 1 .. k : s <= k
      BY <1>1
    <3> HIDE DEF k
    <3> QED BY <1>7, <3>1, <3>2, <3>3
  <2>3. (CHOOSE r \in Decisive' : \A s \in Decisive' : s <= r) = k
    BY <1>1, <1>7, <2>2
  <2>4. /\ best' \in Fitting(rounds'[k], constraints)
        /\ \A o \in Fitting(rounds'[k], constraints) : ~ ComesBefore(o, best')
    BY <1>2, <1>5, <2>1
  <2>5. BestIsOptimal'
    BY <1>10, <2>2, <2>3, <2>4
  <2> QED BY <1>2, <1>3, <2>5 DEF NegotiationInv
<1> QED BY <1>12, <1>13

(***************************************************************************)
(* The best offer of a session meets the constraints, and no acceptable    *)
(* offer of the round it comes from is before it.                          *)
(***************************************************************************)
THEOREM BestOffersAreOptimal == NegotiationSpec => []BestIsOptimal
<1>1. NegotiationInit => NegotiationInv
  BY DEF NegotiationInit, NegotiationInv, BestIsOptimal, Decisive
<1>2. NegotiationInv /\ [NegotiationNext]_negotiationVars => NegotiationInv'
  <2> SUFFICES ASSUME NegotiationInv, [NegotiationNext]_negotiationVars PROVE NegotiationInv'
    OBVIOUS
  <2>1. ASSUME NEW c \in Constraints, Open(c) PROVE NegotiationInv'
    BY <2>1, StatusAssumption DEF Open, NegotiationInv, BestIsOptimal, Decisive
  <2>2. ASSUME NEW list \in Lists, EvaluateRound(list) PROVE NegotiationInv'
    BY <2>2, RoundStep
  <2>3. CASE AcceptBest \/ TimeOut \/ Cancel \/ UNCHANGED negotiationVars
    <3>1. UNCHANGED << constraints, rounds, best >>
      BY <2>3 DEF AcceptBest, TimeOut, Cancel, negotiationVars
    <3>2. BestIsOptimal'
      <4>1. BestIsOptimal' <=> BestIsOptimal
        BY <3>1 DEF BestIsOptimal, Decisive, Acceptable
      <4> QED BY <4>1 DEF NegotiationInv
    <3>3. status' = Absent => rounds' = << >> /\ best' = Absent
      BY <2>3, <3>1, StatusAssumption DEF AcceptBest, TimeOut, Cancel, negotiationVars, NegotiationInv
    <3> QED BY <3>1, <3>2, <3>3 DEF NegotiationInv
  <2> QED BY <2>1, <2>2, <2>3 DEF NegotiationNext
<1>3. NegotiationInv => BestIsOptimal
  BY DEF NegotiationInv
<1> QED BY <1>1, <1>2, <1>3, PTL DEF NegotiationSpec

-----------------------------------------------------------------------------
(* Trust.                                                                  *)

Fraction == Int \X (Nat \ {0})

(***************************************************************************)
(* A sum of fractions over one denominator grows with each of them.        *)
(***************************************************************************)
LEMMA SumGrows ==
  ASSUME NEW A \in Int, NEW B \in Nat, NEW D \in Nat \ {0},
         NEW p1 \in Int, NEW p2 \in Nat \ {0}, NEW q1 \in Int, NEW q2 \in Nat \ {0},
         p1 * q2 <= q1 * p2
  PROVE  (A * p2 + B * p1) * (D * q2) <= (A * q2 + B * q1) * (D * p2)
<1>1. (A * p2 + B * p1) * (D * q2) = D * A * p2 * q2 + (D * B) * (p1 * q2)
  OBVIOUS
<1>2. (A * q2 + B * q1) * (D * p2) = D * A * p2 * q2 + (D * B) * (q1 * p2)
  OBVIOUS
<1>3. D * B \in Nat
  OBVIOUS
<1>4. (D * B) * (p1 * q2) <= (D * B) * (q1 * p2)
  BY <1>3
<1>5. D * A * p2 * q2 \in Int /\ (D * B) * (p1 * q2) \in Int /\ (D * B) * (q1 * p2) \in Int
  OBVIOUS
<1> QED BY <1>1, <1>2, <1>4, <1>5

(***************************************************************************)
(* The weighted sum as a function of one of its rates: fulfilment,         *)
(* timeliness, disputes and integrity.                                     *)
(***************************************************************************)
LEMMA WeighedByRate ==
  ASSUME NEW f1 \in Int, NEW f2 \in Int, NEW t1 \in Int, NEW t2 \in Int,
         NEW d1 \in Int, NEW d2 \in Int, NEW c1 \in Int, NEW c2 \in Int
  PROVE  LET w == 40 * f1 * t2 * d2 * c2 + 25 * t1 * f2 * d2 * c2
                    + 20 * (d2 - d1) * f2 * t2 * c2 + 15 * c1 * f2 * t2 * d2
         IN /\ w = (25 * t1 * d2 * c2 + 20 * (d2 - d1) * t2 * c2 + 15 * c1 * t2 * d2) * f2
                     + (40 * t2 * d2 * c2) * f1
            /\ w = (40 * f1 * d2 * c2 + 20 * (d2 - d1) * f2 * c2 + 15 * c1 * f2 * d2) * t2
                     + (25 * f2 * d2 * c2) * t1
            /\ w = (40 * f1 * t2 * c2 + 25 * t1 * f2 * c2 + 15 * c1 * f2 * t2) * d2
                     + (20 * f2 * t2 * c2) * (d2 - d1)
            /\ w = (40 * f1 * t2 * d2 + 25 * t1 * f2 * d2 + 20 * (d2 - d1) * f2 * t2) * c2
                     + (15 * f2 * t2 * d2) * c1
  OBVIOUS

(***************************************************************************)
(* The weighted sum of four rates is a fraction.                           *)
(***************************************************************************)
LEMMA WeighedIsFraction ==
  ASSUME NEW f \in Fraction, NEW t \in Fraction, NEW d \in Fraction, NEW c \in Fraction
  PROVE  Weighed(f, t, d, c) \in Fraction
<1>1. ASSUME NEW f1 \in Int, NEW f2 \in Nat \ {0}, NEW t1 \in Int, NEW t2 \in Nat \ {0},
             NEW d1 \in Int, NEW d2 \in Nat \ {0}, NEW c1 \in Int, NEW c2 \in Nat \ {0}
      PROVE  /\ 40 * f1 * t2 * d2 * c2 + 25 * t1 * f2 * d2 * c2
                  + 20 * (d2 - d1) * f2 * t2 * c2 + 15 * c1 * f2 * t2 * d2 \in Int
             /\ 100 * f2 * t2 * d2 * c2 \in Nat \ {0}
  <2>1. f2 * t2 \in Nat \ {0}
    OBVIOUS
  <2>2. f2 * t2 * d2 \in Nat \ {0}
    BY <2>1
  <2>3. f2 * t2 * d2 * c2 \in Nat \ {0}
    BY <2>2
  <2> QED BY <2>3
<1> QED BY <1>1 DEF Weighed, Fraction

(***************************************************************************)
(* More fulfilled, on time or intact weighs more, more disputed less.      *)
(***************************************************************************)
LEMMA WeighedGrows ==
  ASSUME NEW f \in Fraction, NEW t \in Fraction, NEW d \in Fraction, NEW c \in Fraction,
         NEW g \in Fraction
  PROVE  /\ AtMost(f, g) => AtMost(Weighed(f, t, d, c), Weighed(g, t, d, c))
         /\ AtMost(t, g) => AtMost(Weighed(f, t, d, c), Weighed(f, g, d, c))
         /\ AtMost(g, d) => AtMost(Weighed(f, t, d, c), Weighed(f, t, g, c))
         /\ AtMost(c, g) => AtMost(Weighed(f, t, d, c), Weighed(f, t, d, g))
<1> PICK f1 \in Int, f2 \in Nat \ {0} : f = << f1, f2 >>
  BY DEF Fraction
<1> PICK t1 \in Int, t2 \in Nat \ {0} : t = << t1, t2 >>
  BY DEF Fraction
<1> PICK d1 \in Int, d2 \in Nat \ {0} : d = << d1, d2 >>
  BY DEF Fraction
<1> PICK c1 \in Int, c2 \in Nat \ {0} : c = << c1, c2 >>
  BY DEF Fraction
<1> PICK g1 \in Int, g2 \in Nat \ {0} : g = << g1, g2 >>
  BY DEF Fraction
<1>1. ASSUME AtMost(f, g)
      PROVE  AtMost(Weighed(f, t, d, c), Weighed(g, t, d, c))
  <2> DEFINE A == 25 * t1 * d2 * c2 + 20 * (d2 - d1) * t2 * c2 + 15 * c1 * t2 * d2
             B == 40 * t2 * d2 * c2
             D == 100 * t2 * d2 * c2
  <2>1. A \in Int /\ B \in Nat /\ D \in Nat \ {0}
    OBVIOUS
  <2>2. 100 * f2 * t2 * d2 * c2 = D * f2 /\ 100 * g2 * t2 * d2 * c2 = D * g2
    OBVIOUS
  <2>3. /\ Weighed(f, t, d, c) = << A * f2 + B * f1, D * f2 >>
        /\ Weighed(g, t, d, c) = << A * g2 + B * g1, D * g2 >>
    BY <2>2, WeighedByRate DEF Weighed
  <2>4. (A * f2 + B * f1) * (D * g2) <= (A * g2 + B * g1) * (D * f2)
    <3>1. f1 * g2 <= g1 * f2
      BY <1>1 DEF AtMost
    <3> HIDE DEF A, B, D
    <3> QED BY <2>1, <3>1, SumGrows
  <2> HIDE DEF A, B, D
  <2> QED BY <2>3, <2>4 DEF AtMost
<1>2. ASSUME AtMost(t, g)
      PROVE  AtMost(Weighed(f, t, d, c), Weighed(f, g, d, c))
  <2> DEFINE A == 40 * f1 * d2 * c2 + 20 * (d2 - d1) * f2 * c2 + 15 * c1 * f2 * d2
             B == 25 * f2 * d2 * c2
             D == 100 * f2 * d2 * c2
  <2>1. A \in Int /\ B \in Nat /\ D \in Nat \ {0}
    OBVIOUS
  <2>2. 100 * f2 * t2 * d2 * c2 = D * t2 /\ 100 * f2 * g2 * d2 * c2 = D * g2
    OBVIOUS
  <2>3. /\ Weighed(f, t, d, c) = << A * t2 + B * t1, D * t2 >>
        /\ Weighed(f, g, d, c) = << A * g2 + B * g1, D * g2 >>
    BY <2>2, WeighedByRate DEF Weighed
  <2>4. (A * t2 + B * t1) * (D * g2) <= (A * g2 + B * g1) * (D * t2)
    <3>1. t1 * g2 <= g1 * t2
      BY <1>2 DEF AtMost
    <3> HIDE DEF A, B, D
    <3> QED BY <2>1, <3>1, SumGrows
  <2> HIDE DEF A, B, D
  <2> QED BY <2>3, <2>4 DEF AtMost
<1>3. ASSUME AtMost(g, d)
      PROVE  AtMost(Weighed(f, t, d, c), Weighed(f, t, g, c))
  <2> DEFINE A == 40 * f1 * t2 * c2 + 25 * t1 * f2 * c2 + 15 * c1 * f2 * t2
             B == 20 * f2 * t2 * c2
             D == 100 * f2 * t2 * c2
  <2>1. A \in Int /\ B \in Nat /\ D \in Nat \ {0}
    OBVIOUS
  <2>2. 100 * f2 * t2 * d2 * c2 = D * d2 /\ 100 * f2 * t2 * g2 * c2 = D * g2
    OBVIOUS
  <2>3. /\ Weighed(f, t, d, c) = << A * d2 + B * (d2 - d1), D * d2 >>
        /\ Weighed(f, t, g, c) = << A * g2 + B * (g2 - g1), D * g2 >>
    BY <2>2, WeighedByRate DEF Weighed
  <2>4. (A * d2 + B * (d2 - d1)) * (D * g2) <= (A * g2 + B * (g2 - g1)) * (D * d2)
    <3>1. (d2 - d1) * g2 <= (g2 - g1) * d2
      BY <1>3 DEF AtMost
    <3> HIDE DEF A, B, D
    <3> QED BY <2>1, <3>1, SumGrows
  <2> HIDE DEF A, B, D
  <2> QED BY <2>3, <2>4 DEF AtMost
<1>4. ASSUME AtMost(c, g)
      PROVE  AtMost(Weighed(f, t, d, c), Weighed(f, t, d, g))
  <2> DEFINE A == 40 * f1 * t2 * d2 + 25 * t1 * f2 * d2 + 20 * (d2 - d1) * f2 * t2
             B == 15 * f2 * t2 * d2
             D == 100 * f2 * t2 * d2
  <2>1. A \in Int /\ B \in Nat /\ D \in Nat \ {0}
    OBVIOUS
  <2>2. 100 * f2 * t2 * d2 * c2 = D * c2 /\ 100 * f2 * t2 * d2 * g2 = D * g2
    OBVIOUS
  <2>3. /\ Weighed(f, t, d, c) = << A * c2 + B * c1, D * c2 >>
        /\ Weighed(f, t, d, g) = << A * g2 + B * g1, D * g2 >>
    BY <2>2, WeighedByRate DEF Weighed
  <2>4. (A * c2 + B * c1) * (D * g2) <= (A * g2 + B * g1) * (D * c2)
    <3>1. c1 * g2 <= g1 * c2
      BY <1>4 DEF AtMost
    <3> HIDE DEF A, B, D
    <3> QED BY <2>1, <3>1, SumGrows
  <2> HIDE DEF A, B, D
  <2> QED BY <2>3, <2>4 DEF AtMost
<1> QED BY <1>1, <1>2, <1>3, <1>4

(***************************************************************************)
(* Cutting fractions off at 0 and 1 keeps their order.                     *)
(***************************************************************************)
LEMMA CutOffKeepsOrder ==
  ASSUME NEW p \in Fraction, NEW q \in Fraction, AtMost(p, q)
  PROVE  AtMost(CutOff(p), CutOff(q))
<1> PICK a \in Int, b \in Nat \ {0} : p = << a, b >>
  BY DEF Fraction
<1> PICK c \in Int, d \in Nat \ {0} : q = << c, d >>
  BY DEF Fraction
<1>1. a * d <= c * b
  BY DEF AtMost
<1>2. (c < 0 => a < 0) /\ (a > b => c > d)
  BY <1>1
<1> QED BY <1>1, <1>2 DEF CutOff, AtMost

(***************************************************************************)
(* The order of fractions is transitive.                                   *)
(***************************************************************************)
LEMMA AtMostTransitive ==
  ASSUME NEW p \in Fraction, NEW q \in Fraction, NEW r \in Fraction, AtMost(p, q), AtMost(q, r)
  PROVE  AtMost(p, r)
<1>1. ASSUME NEW a \in Int, NEW b \in Nat \ {0}, NEW c \in Int, NEW d \in Nat \ {0},
             NEW e \in Int, NEW f \in Nat \ {0}, a * d <= c * b, c * f <= e * d
      PROVE  a * f <= e * b
  <2>1. a * d * f <= c * b * f
    BY <1>1
  <2>2. c * f * b <= e * d * b
    BY <1>1
  <2>3. d * (a * f) <= d * (e * b)
    BY <2>1, <2>2
  <2> QED BY <2>3
<1>2. /\ p[1] \in Int /\ p[2] \in Nat \ {0} /\ q[1] \in Int /\ q[2] \in Nat \ {0}
      /\ r[1] \in Int /\ r[2] \in Nat \ {0}
  BY DEF Fraction
<1>3. p[1] * q[2] <= q[1] * p[2] /\ q[1] * r[2] <= r[1] * q[2]
  BY DEF AtMost
<1>4. p[1] * r[2] <= r[1] * p[2]
  BY <1>1, <1>2, <1>3
<1> QED BY <1>4 DEF AtMost

(***************************************************************************)
(* How a rate moves when its numerator or its denominator is counted up,   *)
(* with an empty denominator among the cases.                              *)
(***************************************************************************)
LEMMA RateMoves ==
  ASSUME NEW n \in Nat, NEW d \in Nat
  PROVE  /\ Rate(n, d, 0) \in Fraction /\ Rate(n, n + d, 1) \in Fraction
         /\ AtMost(Rate(n, d, 0), Rate(n + 1, d, 0))
         /\ n <= d => AtMost(Rate(n, d, 0), Rate(n + 1, d + 1, 0))
         /\ AtMost(Rate(n, n + (d + 1), 1), Rate(n, n + d, 1))
         /\ AtMost(Rate(n, n + d, 1), Rate(n + 1, n + 1 + d, 1))
<1>1. Rate(n, d, 0) \in Fraction /\ Rate(n, n + d, 1) \in Fraction
  BY DEF Rate, Fraction
<1>2. AtMost(Rate(n, d, 0), Rate(n + 1, d, 0))
  BY DEF Rate, AtMost
<1>3. n <= d => AtMost(Rate(n, d, 0), Rate(n + 1, d + 1, 0))
  BY DEF Rate, AtMost
<1>4. AtMost(Rate(n, n + (d + 1), 1), Rate(n, n + d, 1))
  BY DEF Rate, AtMost
<1>5. AtMost(Rate(n, n + d, 1), Rate(n + 1, n + 1 + d, 1))
  BY DEF Rate, AtMost
<1> QED BY <1>1, <1>2, <1>3, <1>4, <1>5

\* The rates behind a score.
Fulfilment(s) == Rate(s.completed, s.total, 0)
Timeliness(s) == Rate(s.on_time, s.completed, 0)
Disputed(s)   == Rate(s.disputes, s.total, 0)
Integrity(s)  == Rate(s.verified, s.verified + s.broken, 1)

(***************************************************************************)
(* What is on time was completed: without it a delivery on time could make *)
(* the rate of those on time smaller.                                      *)
(***************************************************************************)
Sensible(s) == s \in [Counters -> Nat] /\ s.on_time <= s.completed

StatsInv == \A m \in DOMAIN stats : Sensible(stats[m])

(***************************************************************************)
(* How an event moves the rates.                                           *)
(***************************************************************************)
LEMMA RatesMove ==
  ASSUME NEW s, Sensible(s), NEW which \in SUBSET Counters,
         NEW r, r = [k \in Counters |-> IF k \in which THEN s[k] + 1 ELSE s[k]]
  PROVE  /\ r \in [Counters -> Nat]
         /\ which = {"disputes"} => /\ Fulfilment(r) = Fulfilment(s) /\ Timeliness(r) = Timeliness(s)
                                    /\ Integrity(r) = Integrity(s) /\ AtMost(Disputed(s), Disputed(r))
         /\ which = {"broken"} => /\ Fulfilment(r) = Fulfilment(s) /\ Timeliness(r) = Timeliness(s)
                                  /\ Disputed(r) = Disputed(s) /\ AtMost(Integrity(r), Integrity(s))
         /\ which = {"verified"} => /\ Fulfilment(r) = Fulfilment(s) /\ Timeliness(r) = Timeliness(s)
                                    /\ Disputed(r) = Disputed(s) /\ AtMost(Integrity(s), Integrity(r))
         /\ which = {"completed", "on_time"} =>
              /\ Disputed(r) = Disputed(s) /\ Integrity(r) = Integrity(s)
              /\ AtMost(Fulfilment(s), Fulfilment(r)) /\ AtMost(Timeliness(s), Timeliness(r))
<1>1. /\ s.total \in Nat /\ s.completed \in Nat /\ s.on_time \in Nat /\ s.disputes \in Nat
      /\ s.verified \in Nat /\ s.broken \in Nat /\ s.on_time <= s.completed
  BY DEF Sensible, Counters
<1>2. r \in [Counters -> Nat]
  BY DEF Sensible
<1>3. /\ r.total = IF "total" \in which THEN s.total + 1 ELSE s.total
      /\ r.completed = IF "completed" \in which THEN s.completed + 1 ELSE s.completed
      /\ r.on_time = IF "on_time" \in which THEN s.on_time + 1 ELSE s.on_time
      /\ r.disputes = IF "disputes" \in which THEN s.disputes + 1 ELSE s.disputes
      /\ r.verified = IF "verified" \in which THEN s.verified + 1 ELSE s.verified
      /\ r.broken = IF "broken" \in which THEN s.broken + 1 ELSE s.broken
  BY DEF Counters
<1>4. ASSUME which = {"disputes"}
      PROVE  /\ Fulfilment(r) = Fulfilment(s) /\ Timeliness(r) = Timeliness(s)
             /\ Integrity(r) = Integrity(s) /\ Disputed(r) = Rate(s.disputes + 1, s.total, 0)
  BY <1>3, <1>4 DEF Fulfilment, Timeliness, Disputed, Integrity
<1>5. ASSUME which = {"broken"}
      PROVE  /\ Fulfilment(r) = Fulfilment(s) /\ Timeliness(r) = Timeliness(s)
             /\ Disputed(r) = Disputed(s)
             /\ Integrity(r) = Rate(s.verified, s.verified + (s.broken + 1), 1)
  BY <1>3, <1>5 DEF Fulfilment, Timeliness, Disputed, Integrity
<1>6. ASSUME which = {"verified"}
      PROVE  /\ Fulfilment(r) = Fulfilment(s) /\ Timeliness(r) = Timeliness(s)
             /\ Disputed(r) = Disputed(s)
             /\ Integrity(r) = Rate(s.verified + 1, s.verified + 1 + s.broken, 1)
  BY <1>3, <1>6 DEF Fulfilment, Timeliness, Disputed, Integrity
<1>7. ASSUME which = {"completed", "on_time"}
      PROVE  /\ Disputed(r) = Disputed(s) /\ Integrity(r) = Integrity(s)
             /\ Fulfilment(r) = Rate(s.completed + 1, s.total, 0)
             /\ Timeliness(r) = Rate(s.on_time + 1, s.completed + 1, 0)
  BY <1>3, <1>7 DEF Fulfilment, Timeliness, Disputed, Integrity
<1>8. /\ AtMost(Disputed(s), Rate(s.disputes + 1, s.total, 0))
      /\ AtMost(Rate(s.verified, s.verified + (s.broken + 1), 1), Integrity(s))
      /\ AtMost(Integrity(s), Rate(s.verified + 1, s.verified + 1 + s.broken, 1))
      /\ AtMost(Fulfilment(s), Rate(s.completed + 1, s.total, 0))
      /\ AtMost(Timeliness(s), Rate(s.on_time + 1, s.completed + 1, 0))
  BY <1>1, RateMoves DEF Disputed, Integrity, Fulfilment, Timeliness
<1> QED BY <1>2, <1>4, <1>5, <1>6, <1>7, <1>8

(***************************************************************************)
(* A score whose rates all moved one way moved that way.                   *)
(***************************************************************************)
LEMMA ScoreMoves ==
  ASSUME NEW s \in [Counters -> Nat], NEW r \in [Counters -> Nat],
         AtMost(Fulfilment(s), Fulfilment(r)) \/ Fulfilment(s) = Fulfilment(r),
         AtMost(Timeliness(s), Timeliness(r)) \/ Timeliness(s) = Timeliness(r),
         AtMost(Disputed(r), Disputed(s)) \/ Disputed(r) = Disputed(s),
         AtMost(Integrity(s), Integrity(r)) \/ Integrity(s) = Integrity(r)
  PROVE  AtMost(trust_score(s), trust_score(r))
<1>1. \A k \in Counters : s[k] \in Nat /\ r[k] \in Nat
  OBVIOUS
<1>2. /\ Fulfilment(s) \in Fraction /\ Timeliness(s) \in Fraction
      /\ Disputed(s) \in Fraction /\ Integrity(s) \in Fraction
  BY <1>1, RateMoves DEF Counters, Fulfilment, Timeliness, Disputed, Integrity
<1>3. /\ Fulfilment(r) \in Fraction /\ Timeliness(r) \in Fraction
      /\ Disputed(r) \in Fraction /\ Integrity(r) \in Fraction
  BY <1>1, RateMoves DEF Counters, Fulfilment, Timeliness, Disputed, Integrity
<1>4. \A p, q \in Fraction : p = q => AtMost(p, q)
  BY DEF AtMost, Fraction
<1>5. /\ AtMost(Fulfilment(s), Fulfilment(r)) /\ AtMost(Timeliness(s), Timeliness(r))
      /\ AtMost(Disputed(r), Disputed(s)) /\ AtMost(Integrity(s), Integrity(r))
  BY <1>2, <1>3, <1>4
<1> DEFINE w0 == Weighed(Fulfilment(s), Timeliness(s), Disputed(s), Integrity(s))
           w1 == Weighed(Fulfilment(r), Timeliness(s), Disputed(s), Integrity(s))
           w2 == Weighed(Fulfilment(r), Timeliness(r), Disputed(s), Integrity(s))
           w3 == Weighed(Fulfilment(r), Timeliness(r), Disputed(r), Integrity(s))
           w4 == Weighed(Fulfilment(r), Timeliness(r), Disputed(r), Integrity(r))
<1>6. w0 \in Fraction /\ w1 \in Fraction /\ w2 \in Fraction /\ w3 \in Fraction /\ w4 \in Fraction
  BY <1>2, <1>3, WeighedIsFraction
<1>7. AtMost(w0, w1) /\ AtMost(w1, w2) /\ AtMost(w2, w3) /\ AtMost(w3, w4)
  BY <1>2, <1>3, <1>5, WeighedGrows
<1>8. AtMost(w0, w4)
  <2> HIDE DEF w0, w1, w2, w3, w4
  <2>1. AtMost(w0, w2) /\ AtMost(w2, w4)
    BY <1>6, <1>7, AtMostTransitive
  <2> QED BY <1>6, <2>1, AtMostTransitive
<1>9. trust_score(s) = CutOff(w0) /\ trust_score(r) = CutOff(w4)
  BY DEF trust_score, Fulfilment, Timeliness, Disputed, Integrity
<1> HIDE DEF w0, w1, w2, w3, w4
<1> QED BY <1>6, <1>8, <1>9, CutOffKeepsOrder

(***************************************************************************)
(* Every event keeps counters sensible: the route reports a delivery on    *)
(* time only together with its completion.                                 *)
(***************************************************************************)
LEMMA StatsStep == StatsInv /\ [TrustNext]_stats => StatsInv'
<1> SUFFICES ASSUME StatsInv, [TrustNext]_stats PROVE StatsInv'
  OBVIOUS
<1>1. Sensible(NoStats)
  BY DEF Sensible, NoStats, Counters
<1>2. ASSUME NEW s, Sensible(s), NEW which \in SUBSET Counters, "on_time" \in which => "completed" \in which
      PROVE  Sensible([k \in Counters |-> IF k \in which THEN s[k] + 1 ELSE s[k]])
  BY <1>2 DEF Sensible, Counters
<1>3. ASSUME NEW n, NEW which \in SUBSET Counters, "on_time" \in which => "completed" \in which,
             stats' = Counted(n, which)
      PROVE  StatsInv'
  <2>1. DOMAIN stats' = DOMAIN stats \cup {n}
    BY <1>3 DEF Counted
  <2> SUFFICES ASSUME NEW m \in DOMAIN stats \cup {n} PROVE Sensible(stats'[m])
    BY <2>1 DEF StatsInv
  <2> DEFINE old == IF m \in DOMAIN stats THEN stats[m] ELSE NoStats
  <2>2. Sensible(old)
    BY <1>1 DEF StatsInv
  <2>3. stats'[m] = IF m = n THEN [k \in Counters |-> IF k \in which THEN old[k] + 1 ELSE old[k]] ELSE old
    BY <1>3 DEF Counted
  <2> HIDE DEF old
  <2> QED BY <1>2, <1>3, <2>2, <2>3
<1>4. /\ {} \in SUBSET Counters /\ {"total"} \in SUBSET Counters /\ {"completed"} \in SUBSET Counters
      /\ {"completed", "on_time"} \in SUBSET Counters /\ {"disputes"} \in SUBSET Counters
      /\ {"verified"} \in SUBSET Counters /\ {"broken"} \in SUBSET Counters
  BY DEF Counters
<1>5. ASSUME NEW n, OrderCreated(n) PROVE StatsInv'
  BY <1>3, <1>4, <1>5 DEF OrderCreated, Record
<1>6. ASSUME NEW n, CompletedOnTime(n) PROVE StatsInv'
  BY <1>3, <1>4, <1>6 DEF CompletedOnTime, Record
<1>7. ASSUME NEW n, CompletedLate(n) PROVE StatsInv'
  BY <1>3, <1>4, <1>7 DEF CompletedLate, Record
<1>8. ASSUME NEW n, Dispute(n) PROVE StatsInv'
  BY <1>3, <1>4, <1>8 DEF Dispute, Record
<1>9. ASSUME NEW n, ChainVerified(n) PROVE StatsInv'
  BY <1>3, <1>4, <1>9 DEF ChainVerified, Record
<1>10. ASSUME NEW n, ChainBroken(n) PROVE StatsInv'
  BY <1>3, <1>4, <1>10 DEF ChainBroken, Record
<1>11. ASSUME NEW n, Look(n) PROVE StatsInv'
  BY <1>3, <1>4, <1>11 DEF Look
<1>12. CASE UNCHANGED stats
  BY <1>12 DEF StatsInv
<1> QED BY <1>5, <1>6, <1>7, <1>8, <1>9, <1>10, <1>11, <1>12 DEF TrustNext

(***************************************************************************)
(* The score moves the right way, whatever was counted before and however  *)
(* large the counters are.                                                 *)
(***************************************************************************)
THEOREM ScoresAreMonotone == TrustSpec => ScoreIsMonotone
<1>1. TrustInit => StatsInv
  BY DEF TrustInit, StatsInv
<1>2. ASSUME StatsInv, NEW m \in DOMAIN stats
      PROVE  /\ (Dispute(m) \/ ChainBroken(m)) => AtMost(trust_score(stats'[m]), trust_score(stats[m]))
             /\ (CompletedOnTime(m) \/ ChainVerified(m)) => AtMost(trust_score(stats[m]), trust_score(stats'[m]))
  <2>1. PICK s : s = stats[m]
    OBVIOUS
  <2>2. Sensible(s) /\ s \in [Counters -> Nat]
    BY <1>2, <2>1 DEF StatsInv, Sensible
  <2>3. ASSUME NEW which \in SUBSET Counters, stats' = Counted(m, which)
        PROVE  stats'[m] = [k \in Counters |-> IF k \in which THEN s[k] + 1 ELSE s[k]]
    BY <2>1, <2>3 DEF Counted
  <2>4. ASSUME NEW which \in SUBSET Counters, stats' = Counted(m, which)
        PROVE  /\ which = {"disputes"} \/ which = {"broken"} =>
                    AtMost(trust_score(stats'[m]), trust_score(s))
               /\ which = {"completed", "on_time"} \/ which = {"verified"} =>
                    AtMost(trust_score(s), trust_score(stats'[m]))
    <3>1. PICK r : r = [k \in Counters |-> IF k \in which THEN s[k] + 1 ELSE s[k]]
      OBVIOUS
    <3>2. r \in [Counters -> Nat]
      BY <2>2, <3>1, RatesMove
    <3>3. which = {"disputes"} \/ which = {"broken"} => AtMost(trust_score(r), trust_score(s))
      BY <2>2, <3>1, <3>2, RatesMove, ScoreMoves
    <3>4. which = {"completed", "on_time"} \/ which = {"verified"} => AtMost(trust_score(s), trust_score(r))
      BY <2>2, <3>1, <3>2, RatesMove, ScoreMoves
    <3> QED BY <2>3, <2>4, <3>1, <3>3, <3>4
  <2> QED BY <2>1, <2>4 DEF Dispute, ChainBroken, CompletedOnTime, ChainVerified, Record, Counters
<1>3. StatsInv /\ [TrustNext]_stats =>
        [\A m \in DOMAIN stats :
           LET before == trust_score(stats[m])  after == trust_score(stats'[m])
           IN /\ (Dispute(m) \/ ChainBroken(m)) => AtMost(after, before)
              /\ (CompletedOnTime(m) \/ ChainVerified(m)) => AtMost(before, after)]_stats
  BY <1>2
<1> QED BY <1>1, <1>3, StatsStep, PTL DEF TrustSpec, ScoreIsMonotone
=============================================================================
