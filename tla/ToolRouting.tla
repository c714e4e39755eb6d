------------------------------ MODULE ToolRouting ------------------------------
(***************************************************************************)
(* The two routers of the harness: route_tool (tcp/harness/router.py) over *)
(* the three tiers of bitmask_filter (tcp/harness/bitmask_filter.py), and  *)
(* route_tool_legacy over gate_tools (tcp/harness/gating.py), which is kept*)
(* for comparison.  A mask is the set of its bits; commands, formats and   *)
(* modes are one set of features.                                          *)
(***************************************************************************)
EXTENDS Integers, Sequences

CONSTANTS
  ToolNames, Levels, Features,
  Records, Tasks, Environments,   (* bound: those considered                *)
  MaxInventory                    (* bound: tools to choose from            *)

(* What the environment can switch off; authentication it cannot.           *)
Switchable == {"network", "files", "stdin"}
Bits == Switchable \cup {"auth", "json"}

RecordType ==
  [name : ToolNames, flags : SUBSET Bits, level : Levels,
   risky : BOOLEAN,             (* a risk level that asks for approval       *)
   offers : SUBSET Features, time : Nat, memory : Nat]

TaskType ==
  [flags : SUBSET Bits, needs : SUBSET Features, auto : BOOLEAN,
   criteria : {"speed", "memory"}]

EnvironmentType ==
  [enabled : SUBSET Switchable, permitted : SUBSET Levels,
   installed : SUBSET ToolNames]      (* empty: no list of installed tools   *)

ASSUME RoutingAssumption ==
  /\ Records \subseteq RecordType /\ Tasks \subseteq TaskType
  /\ Environments \subseteq EnvironmentType
  /\ MaxInventory \in Nat

VARIABLES
  inventory,    (* the tools, in the order in which they are passed         *)
  routed        (* the task and environment last routed over them, if any   *)

routeVars == <<inventory, routed>>

--------------------------------------------------------------------------------
NotInstalled(t, e) == e.installed # {} /\ t.name \notin e.installed

(* _passes_request_filters, the same tests as in _gate_single_tool.         *)
Fits(t, q) == q.needs \subseteq t.offers

Cost(t, q) == IF q.criteria = "memory" THEN t.memory ELSE t.time

(* gate_tools.                                                              *)
GateRejects(t, q, e) ==
  \/ NotInstalled(t, e)
  \/ t.level \notin e.permitted
  \/ \E b \in Switchable : b \in t.flags /\ b \notin e.enabled
  \/ ~Fits(t, q)
  \/ q.flags # {} /\ t.flags \cap q.flags # q.flags

GateAsks(t, q) == t.risky /\ q.auto

GateApproved(ts, q, e) ==
  {i \in DOMAIN ts : ~GateRejects(ts[i], q, e) /\ ~GateAsks(ts[i], q)}

(* _sort_tools is stable, and route_tool_legacy takes the first.            *)
GateSelected(ts, q, e) ==
  {i \in GateApproved(ts, q, e) : \A j \in GateApproved(ts, q, e) :
     \/ Cost(ts[i], q) < Cost(ts[j], q)
     \/ Cost(ts[i], q) = Cost(ts[j], q) /\ i <= j}

--------------------------------------------------------------------------------
(* route_tool.  _environment_to_deny_mask leaves the GPU enabled.           *)
DenyMask(e) == Switchable \ e.enabled
ApprovalMask == {"auth"}

(* Mutant of BitRejects: one required capability is enough.                 *)
BitRejectsIfNone(t, q, e) ==
  \/ t.flags \cap DenyMask(e) # {}
  \/ q.flags # {} /\ t.flags \cap q.flags = {}

(* bitmask_filter: the deny and require tiers, and the approval tier, from  *)
(* which what is denied is taken.                                           *)
BitRejects(t, q, e) ==
  \/ t.flags \cap DenyMask(e) # {}
  \/ q.flags # {} /\ t.flags \cap q.flags # q.flags
BitAsks(t, e) == t.flags \cap (ApprovalMask \ DenyMask(e)) # {}

RouteRejects(t, q, e) == NotInstalled(t, e) \/ BitRejects(t, q, e) \/ ~Fits(t, q)
RouteAsks(t, q, e) == BitAsks(t, e) /\ q.auto

RouteApproved(ts, q, e) ==
  {i \in DOMAIN ts : ~RouteRejects(ts[i], q, e) /\ ~RouteAsks(ts[i], q, e)}

(* The approval tier comes behind the approved one in the list of which     *)
(* _select_best takes the first with the least cost.                        *)
Ahead(ts, e, i, j) ==
  \/ ~BitAsks(ts[i], e) /\ BitAsks(ts[j], e)
  \/ (BitAsks(ts[i], e) <=> BitAsks(ts[j], e)) /\ i <= j

RouteSelected(ts, q, e) ==
  {i \in RouteApproved(ts, q, e) : \A j \in RouteApproved(ts, q, e) :
     \/ Cost(ts[i], q) < Cost(ts[j], q)
     \/ Cost(ts[i], q) = Cost(ts[j], q) /\ Ahead(ts, e, i, j)}

--------------------------------------------------------------------------------
RouteInit == inventory = <<>> /\ routed = {}

AddTool(t) ==
  /\ routed = {} /\ Len(inventory) < MaxInventory
  /\ inventory' = Append(inventory, t)
  /\ UNCHANGED routed

Route(q, e) ==
  /\ routed = {}
  /\ routed' = {[task |-> q, env |-> e]}
  /\ UNCHANGED inventory

Forget == inventory' = <<>> /\ routed' = {}

RouteNext ==
  \/ \E t \in Records : AddTool(t)
  \/ \E q \in Tasks, e \in Environments : Route(q, e)
  \/ Forget

RouteSpec == RouteInit /\ [][RouteNext]_routeVars

RouteTypeOK ==
  /\ inventory \in Seq(Records)
  /\ routed \subseteq [task : Tasks, env : Environments]

(* The two routers do not look at the same things: only the gate knows      *)
(* permission levels, and it asks by the risk of a tool where the other     *)
(* asks by a flag.  A tool whose level is permitted is turned away by both  *)
(* or by neither; and if they ask about the same tools, or approval is not  *)
(* asked for, they approve the same tools and select ones of equal cost,    *)
(* though perhaps not the same, as their lists differ in order.             *)
SameQuestions(ts, q, e) ==
  /\ \A i \in DOMAIN ts : ts[i].level \in e.permitted
  /\ q.auto => \A i \in DOMAIN ts : ts[i].risky <=> BitAsks(ts[i], e)

RouterAgreesWithGate ==
  \A r \in routed :
    LET q == r.task
        e == r.env
        ts == inventory
    IN /\ \A i \in DOMAIN ts :
            ts[i].level \in e.permitted =>
              (RouteRejects(ts[i], q, e) <=> GateRejects(ts[i], q, e))
       /\ SameQuestions(ts, q, e) =>
            /\ RouteApproved(ts, q, e) = GateApproved(ts, q, e)
            /\ \A i \in GateSelected(ts, q, e), j \in RouteSelected(ts, q, e) :
                 Cost(ts[i], q) = Cost(ts[j], q)
================================================================================
