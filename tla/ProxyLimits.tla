------------------------------ MODULE ProxyLimits ------------------------------
(***************************************************************************)
(* The bounds of one request through the proxy: how long its response is   *)
(* (ResponseTap) and how often it may be sent (UpstreamRetry).             *)
(***************************************************************************)
EXTENDS Integers

CONSTANTS
  MaxEvents,     (* bound: events in a response                             *)
  MaxAttempts    (* UPSTREAM_RETRY_MAX_ATTEMPTS                             *)

ASSUME TapAssumption == MaxEvents \in Nat
ASSUME RetryAssumption == MaxAttempts \in Nat \ {0}
================================================================================
