-------------------------------- MODULE Money --------------------------------
(***************************************************************************)
(* The arithmetic of a checkout: compute_discount and the total.  Amounts  *)
(* are integers, in cents; the value of a percent coupon is in hundredths  *)
(* of a percent, as Numeric(10, 2) stores it.  The Decimals of the code    *)
(* are exact at these sizes, up to the one rounding that is modelled.      *)
(***************************************************************************)
EXTENDS Integers

Coupon == [percent : BOOLEAN, value : Nat \ {0}]

\* ck_coupons_percent_value_max_100.
Storable(c) == c.percent => c.value <= 10000

\* quantize with ROUND_HALF_UP of the fraction n / 10000.
RoundHalfUp(n) == (n + 5000) \div 10000

\* Ten-thousandths of a cent.
RawDiscount(c, subtotal) == IF c.percent THEN subtotal * c.value ELSE 10000 * c.value

Lesser(a, b) == IF a <= b THEN a ELSE b
Greater(a, b) == IF a <= b THEN b ELSE a

DiscountUncapped(c, subtotal) == RoundHalfUp(RawDiscount(c, subtotal))  \* Mutant: no min

Discount(c, subtotal) ==
  RoundHalfUp(Lesser(RawDiscount(c, subtotal), 10000 * subtotal))

\* total_amount of the order; 0 for a coupon that takes it all.
Total(c, subtotal) == Greater(subtotal - Discount(c, subtotal), 0)
=============================================================================
