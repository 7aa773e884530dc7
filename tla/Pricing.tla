------------------------------ MODULE Pricing ------------------------------
(***************************************************************************)
(* The money arithmetic of billing: apps/api/src/billing/pricing.ts, and   *)
(* the two places of subscriptions.service.ts that price a plan change.    *)
(* Every amount is a whole number of baisa.  A coupon is a record          *)
(*   [type : {"none", "percent", "fixed"}, value : Nat]                    *)
(* where "none" is the null coupon and a percentage is in basis points.    *)
(***************************************************************************)
EXTENDS Integers

CONSTANT VatRateBps  \* BILLING_VAT_RATE_BPS

ASSUME PricingAssumption == VatRateBps \in Nat

BasisPoints == 10000

NoCoupon == [type |-> "none", value |-> 0]

Coupon == [type : {"none", "percent", "fixed"}, value : Nat]

Least(a, b) == IF a <= b THEN a ELSE b

Greatest(a, b) == IF a >= b THEN a ELSE b

(* Math.round(a / b) of two naturals: the nearest integer, halves upwards. *)
MathRound(a, b) == (2 * a + b) \div (2 * b)

(* Math.ceil(a / b) for b > 0 and any integer a. *)
MathCeil(a, b) == -((-a) \div b)

(* The discount before it is clamped to the amount it is taken from. *)
RawDiscount(subtotal, coupon) ==
    IF coupon.type = "percent" THEN MathRound(subtotal * coupon.value, BasisPoints)
    ELSE IF coupon.type = "fixed" THEN coupon.value
    ELSE 0

ComputeDiscount(subtotal, coupon) ==
    Least(Greatest(RawDiscount(subtotal, coupon), 0), subtotal)

VatBeforeDiscount(subtotal, discount, rateBps) ==
    MathRound(subtotal * rateBps, BasisPoints)

(* Tax is due on what is left after the discount. *)
Vat(subtotal, discount, rateBps) ==
    MathRound((subtotal - discount) * rateBps, BasisPoints)

ComputeInvoiceAmounts(subtotal, coupon, rateBps) ==
    LET discount == ComputeDiscount(subtotal, coupon)
        vat == Vat(subtotal, discount, rateBps)
    IN  [subtotal |-> subtotal,
         discount |-> discount,
         vat |-> vat,
         total |-> subtotal - discount + vat]

(***************************************************************************)
(* Credit for the part of a paid period that has not been used, counted in *)
(* started days.  Instants are in units of which `day` make one day.       *)
(***************************************************************************)
DaysBetween(from, to, day) == MathCeil(to - from, day)

ElapsedCredit(price, start, end, at, day) ==
    LET totalDays == DaysBetween(start, end, day)
        elapsed == Greatest(0, DaysBetween(start, at, day))
    IN  IF price <= 0 \/ totalDays <= 0
        THEN 0
        ELSE MathRound(price * Least(elapsed, totalDays), totalDays)

UnusedCredit(price, start, end, at, day) ==
    LET totalDays == DaysBetween(start, end, day)
        remaining == Greatest(0, DaysBetween(at, end, day))
        credit == MathRound(price * Least(remaining, totalDays), totalDays)
    IN  IF price <= 0 \/ totalDays <= 0
        THEN 0
        ELSE Greatest(0, Least(credit, price))

(* The unit price a plan change is invoiced at: the credit is taken from   *)
(* the whole, and what remains is spread evenly over the seats.            *)
QuoteUnit(price, quantity, credit) ==
    MathRound(Greatest(0, price * quantity - credit), quantity)
=============================================================================
