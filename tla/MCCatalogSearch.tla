-------------------------- MODULE MCCatalogSearch --------------------------
(***************************************************************************)
(* Rows and filters for small instances of CatalogSearch: every condition  *)
(* of a filter has a row on either side of it.                             *)
(***************************************************************************)
EXTENDS CatalogSearch

MCTags(tags) == [k \in IF tags = << >> THEN {} ELSE {"tags"} |-> tags]

MCRow(active, price, stock, tags) ==
  [ active |-> active, category |-> IF price = 2 THEN "toys" ELSE "books", merchant |-> "shop",
    price |-> price, warranty |-> IF price = 1 THEN 0 ELSE 6, refurbished |-> price = 3,
    stock |-> stock, attributes |-> MCTags(tags) ]

\* The last but one holds what is asked for in another order.
MCListed ==
  { MCRow(TRUE, 1, 1, << >>), MCRow(TRUE, 2, 2, << "red", "new" >>), MCRow(TRUE, 3, Unset, << "red" >>),
    MCRow(TRUE, 2, 1, << "new", "red" >>), MCRow(FALSE, 2, 1, << "red", "new" >>) }

MCFilter(cats, lo, hi, warranty, refurbished, stock, tags) ==
  [ categories |-> cats, merchants |-> {}, min_price |-> lo, max_price |-> hi,
    warranty_min |-> warranty, refurbished_allowed |-> refurbished, in_stock_only |-> stock,
    attributes |-> MCTags(tags) ]

MCFilters ==
  { MCFilter({}, Unset, Unset, Unset, TRUE, TRUE, << >>),
    MCFilter({"books"}, Unset, 3, 0, TRUE, FALSE, << >>),
    MCFilter({}, 2, 3, 6, FALSE, TRUE, << "red", "new" >>) }
=============================================================================
