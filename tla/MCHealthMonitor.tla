---------------------------- MODULE MCHealthMonitor ----------------------------
(***************************************************************************)
(* The monitors of the MCP registry, one of which runs: HealthMonitor, with*)
(* one server at GitHub and one elsewhere, or BatchHealth, with three      *)
(* servers in batches of two and one check at a time.                      *)
(***************************************************************************)
EXTENDS RegistryMonitors

VARIABLE monitor   (* "single" or "batch"                                   *)

MCInit == Init /\ Batch!Init /\ monitor \in {"single", "batch"}

MCNext ==
  \/ monitor = "single" /\ Next /\ UNCHANGED <<monitor, batchVars>>
  \/ monitor = "batch" /\ Batch!Next /\ UNCHANGED <<monitor, vars>>

(* The fairness of both specifications.                                     *)
MCSpec ==
  /\ MCInit
  /\ [][MCNext]_<<monitor, vars, batchVars>>
  /\ WF_vars(monitor = "single" /\ StopReturns /\ UNCHANGED <<monitor, batchVars>>)
  /\ \A t \in Tasks :
       WF_vars(monitor = "single" /\ TaskStep(t) /\ UNCHANGED <<monitor, batchVars>>)
  /\ WF_batchVars(monitor = "batch" /\ Batch!Loop /\ UNCHANGED <<monitor, vars>>)
  /\ \A s \in Batched :
       WF_batchVars(monitor = "batch" /\ Batch!Check(s) /\ UNCHANGED <<monitor, vars>>)
================================================================================
