------------------------- MODULE MCWebhookDelivery -------------------------
(***************************************************************************)
(* Webhook deliveries on small instances: two worker processes, with two   *)
(* deliveries to an endpoint each that one batch may hold for safety, and  *)
(* with one of them for liveness.                                          *)
(***************************************************************************)
EXTENDS WebhookDelivery, TLC

CONSTANTS v1, v2, n1, n2

MCEndpointOf == [d \in Deliveries |-> IF d = v1 THEN n1 ELSE n2]

(* A delivery and its endpoint change places together. *)
MCExchange == (v1 :> v2) @@ (v2 :> v1) @@ (n1 :> n2) @@ (n2 :> n1)

MCSymmetry == {MCExchange} \cup Permutations(Dispatchers)
=============================================================================
