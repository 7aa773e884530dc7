------------------------------- MODULE MCCards -------------------------------
(***************************************************************************)
(* A card on a small instance: an editor who may approve and one whose     *)
(* unit's policy locks the picture; two pictures.                          *)
(***************************************************************************)
EXTENDS Cards
=============================================================================
