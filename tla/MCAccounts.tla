----------------------------- MODULE MCAccounts -----------------------------
(***************************************************************************)
(* Accounts on a small instance: two people, the organisations they got,   *)
(* one as a member of the other's, and a deletion of each, or two of one.  *)
(***************************************************************************)
EXTENDS Accounts, TLC

MCSymmetry ==
    UNION {Permutations(S) : S \in {Users, Identities, Requests, Deletions}}
=============================================================================
