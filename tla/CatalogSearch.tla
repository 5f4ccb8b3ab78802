--------------------------- MODULE CatalogSearch ---------------------------
(***************************************************************************)
(* Catalog search (adapters/retrieval/search.py, apps/api/routes/catalog). *)
(* A search makes two statements, a count and a page, each of which sees   *)
(* the catalog as of its own moment while merchants keep writing, and then *)
(* judges the rows once more with a filter of its own in Python.           *)
(***************************************************************************)
EXTENDS Integers, Sequences, FiniteSets

CONSTANTS
  ProductIds,
  Listed,       \* the rows a merchant may write
  Filters,      \* filters a client may ask for
  PageLimits,   \* page sizes it may ask for
  MaxWrites,    \* bound on the writes during a walk through the pages
  Unset         \* a filter that is not given; a missing inventory row

\* stock is quantity - reserved; the value of an attribute is an array.
RowType ==
  [ active : BOOLEAN, category : STRING, merchant : STRING, price : Nat \ {0},
    warranty : Nat, refurbished : BOOLEAN, stock : Int \cup {Unset},
    attributes : [{"tags"} -> Seq(STRING)] \cup [{} -> {}] ]

ASSUME ProductAssumption == IsFiniteSet(ProductIds)
ASSUME ListedAssumption == Listed \subseteq RowType
ASSUME PageAssumption   == PageLimits \subseteq Nat \ {0} /\ MaxWrites \in Nat
ASSUME UnsetAssumption  == Unset \notin Int

VARIABLES
  catalog,   \* products LEFT JOIN inventory: id -> row
  search,    \* the request under way and its locals
  seen,      \* products the client received, page after page
  moments,   \* ghost: the catalogs there were since the request began
  writes     \* writes since the walk began

searchVars == << catalog, search, seen, moments, writes >>

NotBelow(n, bound) == bound = Unset \/ n >= bound
NotAbove(n, bound)  == bound = Unset \/ n <= bound

Elements(list) == {list[n] : n \in DOMAIN list}

\* JSONB @>: every attribute asked for is there and contains every element that
\* is asked for, in whatever order and however often.
Includes(has, asked) ==
  \A k \in DOMAIN asked : k \in DOMAIN has /\ Elements(asked[k]) \subseteq Elements(has[k])

\* _attributes_match: every attribute asked for is there and is the same list.
attributes_match(has, asked) == \A k \in DOMAIN asked : k \in DOMAIN has /\ has[k] = asked[k]

-----------------------------------------------------------------------------
\* Mutant: p.is_active is not among the conditions.
SqlMatches_Inactive(p, f) ==
  /\ f.categories # {} => p.category \in f.categories
  /\ f.merchants # {} => p.merchant \in f.merchants
  /\ NotBelow(p.price, f.min_price) /\ NotAbove(p.price, f.max_price)
  /\ NotBelow(p.warranty, f.warranty_min)
  /\ f.refurbished_allowed \/ ~ p.refurbished
  /\ f.in_stock_only => (p.stock # Unset /\ p.stock > 0)
  /\ Includes(p.attributes, f.attributes)

\* Stage 1, the WHERE clause.  An empty list is no condition.
SqlMatches(p, f) ==
  /\ p.active
  /\ f.categories # {} => p.category \in f.categories
  /\ f.merchants # {} => p.merchant \in f.merchants
  /\ NotBelow(p.price, f.min_price) /\ NotAbove(p.price, f.max_price)
  /\ NotBelow(p.warranty, f.warranty_min)
  /\ f.refurbished_allowed \/ ~ p.refurbished
  /\ f.in_stock_only => (p.stock # Unset /\ p.stock > 0)
  /\ Includes(p.attributes, f.attributes)

\* _row_to_candidate: a missing inventory row counts as nothing available.
Candidate(i, p) ==
  [ id |-> i, merchant |-> p.merchant, category |-> p.category, price |-> p.price,
    warranty |-> p.warranty, refurbished |-> p.refurbished, attributes |-> p.attributes,
    available |-> IF p.stock = Unset THEN 0 ELSE p.stock ]

\* Mutant: the upper price is excluded.
Recheck_Below(c, f) ==
  /\ f.max_price # Unset => c.price < f.max_price
  /\ NotBelow(c.price, f.min_price) /\ NotBelow(c.warranty, f.warranty_min)
  /\ f.refurbished_allowed \/ ~ c.refurbished
  /\ f.in_stock_only => c.available > 0
  /\ f.categories # {} => c.category \in f.categories
  /\ f.merchants # {} => c.merchant \in f.merchants
  /\ attributes_match(c.attributes, f.attributes)

\* Stage 3 on one candidate; is_active is not part of one.
Recheck(c, f) ==
  /\ NotAbove(c.price, f.max_price) /\ NotBelow(c.price, f.min_price)
  /\ NotBelow(c.warranty, f.warranty_min)
  /\ f.refurbished_allowed \/ ~ c.refurbished
  /\ f.in_stock_only => c.available > 0
  /\ f.categories # {} => c.category \in f.categories
  /\ f.merchants # {} => c.merchant \in f.merchants
  /\ attributes_match(c.attributes, f.attributes)

\* _stage3_recheck: the candidates that pass, in the order they came in.
stage3_recheck(rows, f) ==
  LET passed == {n \in DOMAIN rows : Recheck(rows[n], f)} IN
  [n \in 1 .. Cardinality(passed) |->
     rows[CHOOSE k \in passed : Cardinality({j \in passed : j <= k}) = n]]

MatchingIn(m, f) == {i \in ProductIds : SqlMatches(m[i], f)}

Matching(f) == MatchingIn(catalog, f)

\* Mutant: the statement has no ORDER BY.
Orders_Any(S) ==
  {s \in [1 .. Cardinality(S) -> S] : \A m, n \in DOMAIN s : m # n => s[m] # s[n]}

\* ORDER BY price_paise ASC: products of one price come in any order.
Orders(S) ==
  {s \in [1 .. Cardinality(S) -> S] :
     \A m, n \in DOMAIN s : m < n => s[m] # s[n] /\ catalog[s[m]].price <= catalog[s[n]].price}

PageOf(s, limit, offset) ==
  SubSeq(s, offset + 1, IF offset + limit < Len(s) THEN offset + limit ELSE Len(s))

\* get_product: one active row by its id.
get_product(i) == {Candidate(j, catalog[j]) : j \in {x \in ProductIds : x = i /\ catalog[x].active}}

-----------------------------------------------------------------------------
NoSearch == [stage |-> "idle"]

\* Before anything is offered.
SearchInit ==
  /\ catalog \in [ProductIds -> {p \in Listed : ~ p.active}]
  /\ search = NoSearch /\ seen = << >> /\ moments = {} /\ writes = 0

\* The count statement, of the first page or of the next.
CountFor(f, limit, offset) ==
  /\ search' = [ stage |-> "counted", filter |-> f, limit |-> limit, offset |-> offset,
                 total |-> Cardinality(Matching(f)), rows |-> << >> ]
  /\ moments' = {catalog}
  /\ UNCHANGED << catalog, writes >>

Ask(f, limit) ==
  /\ search.stage = "idle"
  /\ seen' = << >>
  /\ CountFor(f, limit, 0)

\* The data statement.
ReadPage ==
  /\ search.stage = "counted"
  /\ \E s \in Orders(Matching(search.filter)) :
       LET page == PageOf(s, search.limit, search.offset) IN
       search' = [search EXCEPT !.stage = "read",
                                !.rows = [n \in DOMAIN page |-> Candidate(page[n], catalog[page[n]])]]
  /\ UNCHANGED << catalog, seen, moments, writes >>

\* Stage 2 is a stub that keeps the rows; stage 3 keeps those that pass.
Answer ==
  /\ search.stage = "read"
  /\ search' = [search EXCEPT !.stage = "answered"]
  /\ seen' = seen \o stage3_recheck(search.rows, search.filter)
  /\ UNCHANGED << catalog, moments, writes >>

\* The client asks for the next page until it has walked past total_count.
Turn ==
  /\ search.stage = "answered"
  /\ search.offset + search.limit < search.total
  /\ CountFor(search.filter, search.limit, search.offset + search.limit)
  /\ UNCHANGED seen

\* A merchant writes a product or its stock changes, at any moment.
Write(i, p) ==
  /\ p # catalog[i]
  /\ catalog' = [catalog EXCEPT ![i] = p]
  /\ IF search.stage = "idle"
     THEN UNCHANGED << moments, writes >>
     ELSE /\ writes < MaxWrites
          /\ writes' = writes + 1
          /\ moments' = moments \cup {catalog'}
  /\ UNCHANGED << search, seen >>

SearchNext ==
  \/ \E f \in Filters, n \in PageLimits : Ask(f, n)
  \/ ReadPage \/ Answer \/ Turn
  \/ \E i \in ProductIds, p \in Listed : Write(i, p)

SearchSpec == SearchInit /\ [][SearchNext]_searchVars

-----------------------------------------------------------------------------
(***************************************************************************)
(* The two filters agree as far as they do (search.py:250-307): a row the  *)
(* database returned is dropped by the second filter only for a list that  *)
(* contains what was asked for and yet is another list: it holds more, the *)
(* same in another order, or one element twice.  So _attributes_match is   *)
(* not, as line 297 says, equivalent to JSONB containment, but it drifts   *)
(* from it on this side only and in no other condition.                    *)
(***************************************************************************)
Differs(c, f) == \E k \in DOMAIN f.attributes : c.attributes[k] # f.attributes[k]

RecheckOnlyNarrowsAttributes ==
  search.stage \in {"read", "answered"} =>
    \A n \in DOMAIN search.rows :
      LET c == search.rows[n] IN
      Recheck(c, search.filter)
        \/ (Includes(c.attributes, search.filter.attributes) /\ Differs(c, search.filter))

(***************************************************************************)
(* A client that walks through all pages of a catalog nobody writes to,    *)
(* whose matches have different prices, receives every match once and in   *)
(* the order of the prices; rows the second filter dropped apart.          *)
(***************************************************************************)
Walked == search.stage = "answered" /\ search.offset + search.limit >= search.total

Unambiguous(f) ==
  /\ \A i, j \in Matching(f) : catalog[i].price = catalog[j].price => i = j
  /\ \A i \in Matching(f) : ~ Differs(catalog[i], f)

WalkIsComplete ==
  (Walked /\ writes = 0 /\ Unambiguous(search.filter)) =>
    /\ Len(seen) = search.total
    /\ {seen[n] : n \in DOMAIN seen} = {Candidate(i, catalog[i]) : i \in Matching(search.filter)}
    /\ \A m, n \in DOMAIN seen : m < n => seen[m].price < seen[n].price

(***************************************************************************)
(* Whatever is written meanwhile, the rows of a page are a page of ONE     *)
(* catalog there was during the request: all active and matching in it,    *)
(* none twice, none dearer than the next, as many as limit and offset      *)
(* leave.  The total is the number of matches of one such catalog too, but *)
(* it may be another.  If nothing was written it is the same one, it is    *)
(* the present one, and a product's own page shows what the row shows.     *)
(***************************************************************************)
IsPageOf(m, q) ==
  /\ \A n \in DOMAIN q.rows :
       LET c == q.rows[n] IN
       m[c.id].active /\ SqlMatches(m[c.id], q.filter) /\ c = Candidate(c.id, m[c.id])
  /\ \A k, n \in DOMAIN q.rows :
       k < n => q.rows[k].id # q.rows[n].id /\ q.rows[k].price <= q.rows[n].price
  /\ DOMAIN q.rows = {n \in 1 .. q.limit : q.offset + n <= Cardinality(MatchingIn(m, q.filter))}

PageIsFaithful ==
  search.stage \in {"read", "answered"} =>
    /\ \E m \in moments : IsPageOf(m, search)
    /\ \E m \in moments : search.total = Cardinality(MatchingIn(m, search.filter))
    /\ Cardinality(moments) = 1 =>
         moments = {catalog} /\ \A n \in DOMAIN search.rows :
                                   get_product(search.rows[n].id) = {search.rows[n]}

-----------------------------------------------------------------------------
(***************************************************************************)
(* search.py:256-259, the second filter "Prevents stale results from cache *)
(* or race conditions. Every candidate must satisfy ALL filters at the     *)
(* time of return": what an answer adds matches in the catalog then.       *)
(***************************************************************************)
ReturnedRowsMatch ==
  [][ Answer => \A n \in (Len(seen) + 1) .. Len(seen') :
                  SqlMatches(catalog[seen'[n].id], search.filter) ]_searchVars
=============================================================================
