-------------------------- MODULE MCSandboxApprovals --------------------------
(***************************************************************************)
(* SandboxApprovals with two managers on one directory.  The first tool is *)
(* requested twice, so that a request, an approval and a saved approval of *)
(* it can each be an old one.                                              *)
(***************************************************************************)
EXTENDS SandboxApprovals, TLC

CONSTANTS t1, t2

Requests == t1 :> 2 @@ t2 :> 1

Symmetry == Permutations(Managers)
================================================================================
