---------------------------- MODULE MCRecencyShield ----------------------------
(***************************************************************************)
(* RecencyShield on small instances.                                       *)
(***************************************************************************)
EXTENDS RecencyShield, TLC

Symmetry == Permutations(Requests) \cup Permutations(Servers)
================================================================================
