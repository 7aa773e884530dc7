------------------------------ MODULE MCBilling ------------------------------
(***************************************************************************)
(* Billing on the instance of MCSubscriptions.                             *)
(***************************************************************************)
EXTENDS Billing

=============================================================================
