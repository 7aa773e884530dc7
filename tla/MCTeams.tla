------------------------------- MODULE MCTeams -------------------------------
(***************************************************************************)
(* Teams on a small instance: the owner and two people for a plan of two   *)
(* seats, an import that names one of them, two requests, two workers.     *)
(***************************************************************************)
EXTENDS Teams, TLC

CONSTANTS j1, a

MCRowsOf == j1 :> {a}

MCSymmetry == Permutations(Requests) \cup Permutations(Workers)
=============================================================================
