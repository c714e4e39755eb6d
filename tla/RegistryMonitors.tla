---------------------------- MODULE RegistryMonitors ----------------------------
(***************************************************************************)
(* The two monitors of the MCP registry (mcp-registry/monitor), which share*)
(* nothing: HealthMonitor, and BatchHealth with servers of its own.        *)
(***************************************************************************)
EXTENDS HealthMonitor

CONSTANTS
  Batched,        (* the servers the batch monitor may have                 *)
  BatchSize,      (* batch_size                                             *)
  MaxConcurrent   (* max_concurrent                                         *)

ASSUME BatchAssumption ==
  /\ IsFiniteSet(Batched)
  /\ BatchSize \in Nat
  /\ MaxConcurrent \in Nat

VARIABLES on, loop, cancelled, stopping, servers, rest, check, permits, results, late

batchVars == <<on, loop, cancelled, stopping, servers, rest, check, permits,
               results, late>>

Batch == INSTANCE BatchHealth WITH Servers <- Batched, running <- on

--------------------------------------------------------------------------------
(* The properties of the batch monitor, as BatchHealth states them: every   *)
(* server it has is checked again and again, ...                            *)
EveryServerChecked == Batch!EveryServerChecked

(* ... and only a removal in the middle of a round leaves a result behind.  *)
OrphansWereInTheRound == Batch!OrphansWereInTheRound
================================================================================
