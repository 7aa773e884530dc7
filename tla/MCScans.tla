------------------------------- MODULE MCScans -------------------------------
(***************************************************************************)
(* One scan on a small instance: no step relates two scans.  Two windows   *)
(* overlap on it, two faults give a run that lost its job beside the one   *)
(* that got it, a job given up at its second stop, and a removal cut short *)
(* beside either.                                                          *)
(***************************************************************************)
EXTENDS Scans
=============================================================================
