---------------------------- MODULE MCApprovals ----------------------------
(***************************************************************************)
(* Change requests on a small instance: two users who may submit, edit and *)
(* review, in a window each, and two requests.                             *)
(***************************************************************************)
EXTENDS Approvals, TLC

CONSTANTS c1, c2, u1, u2

MCUserOf == (c1 :> u1) @@ (c2 :> u2)

MCSymmetry == Permutations(Requests)
=============================================================================
