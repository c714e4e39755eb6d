---------------------------- MODULE MCProxyHandlers ----------------------------
(***************************************************************************)
(* The two handlers that forward a request, one of which runs: POST        *)
(* /v1/messages with the tap on its response (ResponseTap), and the        *)
(* pass-through with its two places that send again (UpstreamRetry).       *)
(***************************************************************************)
EXTENDS ResponseTap, UpstreamRetry

VARIABLE route  (* "messages" or "pass-through"                             *)

(* The handler that does not run has one initial state.                     *)
MCInit ==
  /\ route \in {"messages", "pass-through"}
  /\ Init /\ PassInit
  /\ route = "messages" => forwarded = [safe |-> FALSE, passThrough |-> TRUE]
  /\ route = "pass-through" =>
       /\ request = [meta |-> FALSE, stream |-> FALSE, compressed |-> FALSE, faults |-> {}]
       /\ wire = <<>>

MCNext ==
  \/ route = "messages" /\ Next /\ UNCHANGED <<route, passVars>>
  \/ route = "pass-through" /\ PassNext /\ UNCHANGED <<route, vars>>

(* FairSpec of ResponseTap, for the route it is about.                      *)
MCSpec ==
  /\ MCInit
  /\ [][MCNext]_<<route, vars, passVars>>
  /\ WF_vars(route = "messages" /\ Upstream /\ UNCHANGED <<route, passVars>>)
  /\ WF_vars(route = "messages" /\ Generator /\ UNCHANGED <<route, passVars>>)

(* Every turn of that route ends as ResponseEnds says: recorded, and its    *)
(* upstream response closed, unless a fault excuses it.                     *)
TurnEnds == route = "messages" => ResponseEnds
================================================================================
