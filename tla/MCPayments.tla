----------------------------- MODULE MCPayments -----------------------------
(***************************************************************************)
(* Payments on a small instance: two requests at a time, so that two       *)
(* checkouts, two confirmations, or one of each overlap.                   *)
(***************************************************************************)
EXTENDS Payments

(* One line of 80 baisa without a coupon, and the same line for nothing. *)
MCOffers ==
    {[unit |-> 40, quantity |-> 2, coupon |-> NoCoupon],
     [unit |-> 40, quantity |-> 2, coupon |-> [type |-> "percent", value |-> BasisPoints]]}
=============================================================================
