---------------------------- MODULE MCPlanChange ----------------------------
(***************************************************************************)
(* PlanChange on a small instance: amounts that do not divide evenly, half *)
(* days, two prices that are edited up and down, and a coupon of each      *)
(* kind, the fixed one above the smaller price.                            *)
(***************************************************************************)
EXTENDS PlanChange

MCCoupons ==
    {NoCoupon,
     [type |-> "percent", value |-> 3333],
     [type |-> "fixed", value |-> 150]}

=============================================================================
