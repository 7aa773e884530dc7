------------------------------ MODULE MCOutbox ------------------------------
(***************************************************************************)
(* The outbox on a small instance: two worker processes, and two events    *)
(* that announce the same thing, hence share a key.                        *)
(***************************************************************************)
EXTENDS Outbox

MCKey == [e \in Events |-> CHOOSE k \in Keys : TRUE]
=============================================================================
