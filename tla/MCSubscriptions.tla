-------------------------- MODULE MCSubscriptions --------------------------
(***************************************************************************)
(* Subscriptions on a small instance: two requests at a time, periods long *)
(* enough to be announced before they end.                                 *)
(***************************************************************************)
EXTENDS Subscriptions

=============================================================================
