------------------------------- MODULE Money -------------------------------
(***************************************************************************)
(* The calculations of backend/kernel/domain/money.py.  A line is priced,  *)
(* discounted no further than the merchant's floor, taxed and totalled.    *)
(* Amounts are integers in paise and rates are in basis points; Decimal    *)
(* is exact here and the rounding mode decides.                            *)
(***************************************************************************)
EXTENDS Integers

CONSTANTS
  Asks,     \* what may be priced
  Unasked,  \* nothing priced yet
  Raised    \* a ValueError

AskType ==
  [ unit_price : Nat \ {0}, quantity : Nat \ {0}, discount_rate : Nat, floor : Nat,
    tax_rate : Nat, shipping : Nat, cart_discount : Nat ]

QuoteType == [discount : Int, line : Int, tax : Int, total : Int]

ASSUME AskAssumption == Asks \subseteq AskType
ASSUME OutcomeAssumption == Raised # Unasked /\ Raised \notin QuoteType

VARIABLES
  ask,
  quote  \* the price

moneyVars == << ask, quote >>

-----------------------------------------------------------------------------
Min2(a, b) == IF a < b THEN a ELSE b
Max2(a, b) == IF a < b THEN b ELSE a

\* x / 10000, quantized HALF_UP and DOWN.
HalfUp(x) == (x + 5000) \div 10000
Down(x)   == x \div 10000

compute_tax(base, rate) == HalfUp(base * rate)

\* Mutant: the discount is rounded like a tax.
compute_discount_HalfUp(base, rate, floor) == Min2(HalfUp(base * rate), Max2(0, base - floor))

compute_discount(base, rate, floor) == Min2(Down(base * rate), Max2(0, base - floor))

compute_line_total(unit, quantity, discount) == unit * quantity - discount

\* Mutant: a total below zero is taken for zero.
compute_cart_total_Clamped(line, shipping, tax, discount) == Max2(0, line + shipping + tax - discount)

compute_cart_total(line, shipping, tax, discount) == line + shipping + tax - discount

MoneyInit == ask = Unasked /\ quote = Unasked

\* A negative line or cart total raises.
Price(a) ==
  /\ ask = Unasked
  /\ ask' = a
  /\ LET discount == compute_discount(a.unit_price * a.quantity, a.discount_rate, a.floor)
         line     == compute_line_total(a.unit_price, a.quantity, discount)
         tax      == compute_tax(line, a.tax_rate)
         total    == compute_cart_total(line, a.shipping, tax, a.cart_discount)
     IN quote' = IF line < 0 \/ total < 0 THEN Raised
                 ELSE [discount |-> discount, line |-> line, tax |-> tax, total |-> total]

MoneyNext == \E a \in Asks : Price(a)

MoneySpec == MoneyInit /\ [][MoneyNext]_moneyVars

-----------------------------------------------------------------------------
Priced == quote \notin {Unasked, Raised}
Base   == ask.unit_price * ask.quantity

(***************************************************************************)
(* The discount is the largest whole amount that is neither more than the  *)
(* rate gives nor takes the price below the floor; a price that is below   *)
(* its floor to begin with gets none (money.py:170-172).                   *)
(***************************************************************************)
Permitted(d) == d * 10000 <= Base * ask.discount_rate /\ (d = 0 \/ Base - d >= ask.floor)

ExactDiscount(d) == Permitted(d) /\ \A e \in d + 1 .. Base : ~ Permitted(e)

DiscountIsExact == Priced => quote.discount \in 0 .. Base /\ ExactDiscount(quote.discount)

(***************************************************************************)
(* A quoted total is never negative and is what is due, exactly reckoned   *)
(* with the unrounded tax, to the nearest paisa, half a paisa up (money.py *)
(* :135-136 rounds the tax only); and what is refused is an amount due     *)
(* that lies more than half a paisa below zero.  Amounts are compared in   *)
(* ten-thousandths of a paisa.                                             *)
(***************************************************************************)
ExactTax(d) == (Base - d) * ask.tax_rate
ExactDue(d) == 10000 * (Base - d + ask.shipping - ask.cart_discount) + ExactTax(d)

Nearest(n, x) == 20000 * n - 10000 <= 2 * x /\ 2 * x < 20000 * n + 10000

TotalIsExact ==
  /\ Priced => /\ quote.total >= 0
               /\ Nearest(quote.tax, ExactTax(quote.discount))
               /\ Nearest(quote.total, ExactDue(quote.discount))
  /\ quote = Raised =>
       \A d \in 0 .. Base : ExactDiscount(d) => 2 * ExactDue(d) < -10000
=============================================================================
