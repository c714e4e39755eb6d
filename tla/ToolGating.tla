------------------------------ MODULE ToolGating ------------------------------
(***************************************************************************)
(* What the proxy makes of the tools array of one POST /v1/messages:       *)
(* _process_tools_array of tcp/proxy/cc_proxy.py with the controller, the  *)
(* pack manifest, the survivor reducer, the capability resolution gate and *)
(* the denial gate it calls.  The configuration is read from environment   *)
(* and manifest and is fixed; the mode is read from its file at every      *)
(* turn.                                                                   *)
(*                                                                         *)
(* Text is abstracted to what the pipeline takes from it: the servers a    *)
(* prompt mentions, the capability flags and capabilities it implies, the  *)
(* tools its words name.  A tool is what its projection says of it.        *)
(***************************************************************************)
EXTENDS Integers, FiniteSets

CONSTANTS
  Tools, Servers, Packs, Capabilities,
  NoServer, NoPack,   (* a built-in has no server, a server may have no pack*)
  CorePack,           (* "core-coding"                                      *)
  ServerOf,           (* the server of a tool                               *)
  Flags,              (* capability_flags of its record                     *)
  Static,             (* tools of STATIC_FLAG_BY_NAME                       *)
  SafetyFloor,        (* _SAFETY_FLOOR_TOOLS                                *)
  CapServers,         (* _CAPABILITY_SERVERS                                *)
  MaxShortlist,
  Configs, Requests   (* bound: the configurations and requests considered  *)

States == {"active", "deferred", "suppressed"}
Modes == {"shadow", "live", "live-strict"}
Gates == {"network", "files", "stdin"}
FlagNames == Gates \cup {"auth"}

(* A pack rule: its default state, whether workspace, profile or an env     *)
(* variable activates it here, and whether it accepts the workspace list.   *)
PackRules == [default : States, matches : BOOLEAN, allowWorkspace : BOOLEAN]

ConfigType ==
  [packOf : [Servers -> Packs \cup {NoPack}],
   rules : [Packs -> PackRules],
   override : BOOLEAN,            (* TCP_PROXY_ALLOWED_MCP_SERVERS is set    *)
   allowed : SUBSET Servers,      (* ... or the default allow list           *)
   workspace : SUBSET Servers,    (* TCP_PROXY_WORKSPACE_MCP_SERVERS         *)
   enabled : SUBSET Gates,        (* RuntimeEnvironment                      *)
   systemDir : BOOLEAN,           (* cwd is a system directory               *)
   demote : BOOLEAN]              (* TCP_PROXY_REDUCER_ENFORCE               *)

RequestType ==
  [offered : SUBSET Tools,
   mentioned : SUBSET Servers,
   continuation : BOOLEAN,        (* no task text: "continue", a notification*)
   flags : SUBSET FlagNames,      (* heuristic flags of the prompt           *)
   capabilities : SUBSET Capabilities,
   named : SUBSET Tools,          (* exact or lexical match with the prompt  *)
   recent : SUBSET Servers]       (* the recency shield                      *)

ASSUME GatingAssumption ==
  /\ NoServer \notin Servers /\ NoPack \notin Packs /\ CorePack \in Packs
  /\ ServerOf \in [Tools -> Servers \cup {NoServer}]
  /\ Flags \in [Tools -> SUBSET FlagNames]
  /\ Static \subseteq Tools /\ SafetyFloor \subseteq Tools
  /\ CapServers \in [Capabilities -> SUBSET Servers]
  /\ MaxShortlist \in Nat \ {0}
  /\ Configs \subseteq ConfigType /\ Requests \subseteq RequestType

VARIABLES
  config,
  modeFile,   (* MODE_PATH; "" if it is missing or holds anything else      *)
  turn        (* the turn processed last; its mode is "" before the first   *)

vars == <<config, modeFile, turn>>

--------------------------------------------------------------------------------
(* The controller: one state for a server, in four steps.                   *)

(* _process_tools_array drops the workspace list under the override.        *)
WorkspaceList(c) == IF c.override THEN {} ELSE c.workspace

PackServers(c, p) == {s \in Servers : c.packOf[s] = p}

WorkspaceAllows(c, p) ==
  /\ ~c.rules[p].matches
  /\ c.rules[p].default # "active"
  /\ c.rules[p].allowWorkspace
  /\ PackServers(c, p) \cap WorkspaceList(c) # {}

PackState(c, p) ==
  IF c.rules[p].matches THEN "active"
  ELSE IF WorkspaceAllows(c, p) THEN "deferred"
  ELSE c.rules[p].default

HasFloor(c, s) ==
  /\ c.packOf[s] # NoPack
  /\ c.rules[c.packOf[s]].matches \/ WorkspaceAllows(c, c.packOf[s])

ManifestState(c, s) ==
  IF c.packOf[s] # NoPack THEN PackState(c, c.packOf[s])
  ELSE IF s \in c.allowed THEN "active" ELSE "suppressed"

(* Mutants of Raised: a mention lowers, or is not looked at.                *)
RaisedSwapped(state) == IF state = "deferred" THEN "suppressed" ELSE "deferred"

Raised(state) == IF state = "suppressed" THEN "deferred" ELSE "active"

ServerState(c, mentioned, s) ==
  IF c.packOf[s] = CorePack THEN "active"
  ELSE IF c.override /\ s \notin c.allowed
       THEN IF HasFloor(c, s) THEN "deferred" ELSE "suppressed"
  ELSE IF s \in mentioned THEN Raised(ManifestState(c, s))
  ELSE ManifestState(c, s)

ToolState(c, q, t) ==
  IF ServerOf[t] = NoServer THEN "active"
  ELSE ServerState(c, q.mentioned, ServerOf[t])

--------------------------------------------------------------------------------
(* Stages 1 and 2.                                                          *)

(* derive_request: a continuation requires nothing.  The hard flags are     *)
(* what is required and not heuristic.                                      *)
Heuristic(q) == IF q.continuation THEN {} ELSE q.flags
Required(c, q) ==
  IF q.continuation THEN {}
  ELSE q.flags \cup (IF c.systemDir THEN {"auth"} ELSE {})
Hard(c, q) == Required(c, q) \ Heuristic(q)

(* Neither tier of the projection fills in output formats.                  *)
OutputFormats(t) == {}

Passes(c, t, flags, formats) ==
  /\ Flags[t] \cap Gates \subseteq c.enabled
  /\ formats \subseteq OutputFormats(t)
  /\ flags \subseteq Flags[t]

Stage1(c, q) == {t \in q.offered : Passes(c, t, Hard(c, q), {})}

Filtered(c, m, q) ==
  IF m = "shadow" THEN {} ELSE {t \in Stage1(c, q) : ToolState(c, q, t) = "suppressed"}

(* The strict gate looks at all that was offered, and asks for text output. *)
StrictGate(c, q) == {t \in q.offered : Passes(c, t, Required(c, q), {"text"})}

PolicyBlocked(c, m, q) == IF m = "live-strict" THEN q.offered \ StrictGate(c, q) ELSE {}

Stage2(c, m, q) ==
  IF m = "live-strict" THEN StrictGate(c, q) ELSE Stage1(c, q) \ Filtered(c, m, q)

(* Stage 4: core tools come back, whatever rejected them.  Mutant of        *)
(* FloorRescued: not those of a suppressed server.                          *)
FloorRescuedActive(c, m, q) ==
  IF m = "live" /\ "files" \in c.enabled
  THEN {t \in SafetyFloor \cap q.offered : ToolState(c, q, t) # "suppressed"} ELSE {}

FloorRescued(c, m, q) ==
  IF m = "live" /\ "files" \in c.enabled THEN SafetyFloor \cap q.offered ELSE {}

Survivors(c, m, q) == Stage2(c, m, q) \cup FloorRescued(c, m, q)

--------------------------------------------------------------------------------
(* Stage 4.5: the reducer.                                                  *)

FamilyServers(q) == UNION {CapServers[k] : k \in q.capabilities}

Evidence(c, m, q) ==
  {t \in Survivors(c, m, q) : t \in q.named \/ ServerOf[t] \in FamilyServers(q)}

(* The best scored of the tools with evidence.  Scores are left out: any of *)
(* them may be the best.  It is empty exactly if the reducer abstains.      *)
Shortlists(c, m, q) ==
  LET evidence == Evidence(c, m, q)
      size == IF Cardinality(evidence) < MaxShortlist
              THEN Cardinality(evidence) ELSE MaxShortlist
  IN {S \in SUBSET evidence : Cardinality(S) = size}

(* Mutants of DemotionCandidates: all but the shortlist, and also when the  *)
(* reducer abstains.                                                        *)
DemotionCandidatesUnguarded(c, m, q, shortlist) ==
  IF shortlist = {} THEN {} ELSE Survivors(c, m, q) \ shortlist

DemotionCandidates(c, m, q, shortlist) ==
  IF shortlist = {} THEN {}
  ELSE {t \in Survivors(c, m, q) \ (shortlist \cup SafetyFloor) :
          /\ ServerOf[t] # NoServer
          /\ ServerOf[t] \notin q.recent
          /\ ToolState(c, q, t) = "active"}

Demoted(c, m, q, shortlist) ==
  IF m = "live" /\ c.demote THEN DemotionCandidates(c, m, q, shortlist) ELSE {}

--------------------------------------------------------------------------------
(* The output.                                                              *)

Fallback(t) == t \notin Static /\ Flags[t] = {}

(* live_tools.  Mutant: a tool of the fallback tier survives even if its    *)
(* server was filtered.                                                     *)
EmittedUnfiltered(c, m, q) == Survivors(c, m, q) \cup {t \in q.offered : Fallback(t)}

Emitted(c, m, q) ==
  Survivors(c, m, q) \cup {t \in q.offered : Fallback(t) /\ t \notin Filtered(c, m, q)}

Deferred(c, m, q, shortlist) ==
  IF m = "shadow" THEN {}
  ELSE {t \in Emitted(c, m, q) :
          ToolState(c, q, t) = "deferred" \/ t \in Demoted(c, m, q, shortlist)}

EmptyFallback(c, m, q) == m # "shadow" /\ Emitted(c, m, q) = {}

(* What upstream sees.                                                      *)
Sent(c, m, q) ==
  IF m = "shadow" \/ EmptyFallback(c, m, q) THEN q.offered ELSE Emitted(c, m, q)

SentFull(c, m, q, shortlist) ==
  IF m = "shadow" \/ EmptyFallback(c, m, q) THEN q.offered
  ELSE Emitted(c, m, q) \ Deferred(c, m, q, shortlist)

--------------------------------------------------------------------------------
(* Stage 5: the capability resolution gate.                                 *)

Matching(tools, k) == {t \in tools : ServerOf[t] \in CapServers[k]}

ConnectorServers(c) == {s \in Servers : c.packOf[s] # NoPack}

(* Mutant of Status: the deferred surface is forgotten.                     *)
StatusWithoutDeferred(c, m, q, shortlist, k) ==
  LET visible == Matching(Emitted(c, m, q) \ Deferred(c, m, q, shortlist), k)
  IN IF visible # {} THEN "callable_now"
     ELSE IF CapServers[k] \cap ConnectorServers(c) # {} THEN "schema_deferred"
     ELSE "unavailable"

Status(c, m, q, shortlist, k) ==
  LET visible == Matching(Emitted(c, m, q) \ Deferred(c, m, q, shortlist), k)
      deferred == Matching(Deferred(c, m, q, shortlist), k)
      latent == Matching(Filtered(c, m, q), k)
      blocked == Matching(PolicyBlocked(c, m, q), k)
      connectors == CapServers[k] \cap ConnectorServers(c)
  IN IF blocked # {} /\ visible = {} THEN "policy_blocked"
     ELSE IF visible # {} THEN "callable_now"
     ELSE IF deferred \cup latent # {} THEN "schema_deferred"
     ELSE IF connectors # {} THEN "schema_deferred"
     ELSE "unavailable"

(* may_emit_capability_denial on the resolutions of this turn: they are     *)
(* signed and list all six surfaces.                                        *)
DenialAllowed(c, m, q, shortlist) ==
  \E k \in q.capabilities : Status(c, m, q, shortlist, k) = "unavailable"

--------------------------------------------------------------------------------
NoTurn == [mode |-> "", request |-> [offered |-> {}], shortlist |-> {}]

Init ==
  /\ config \in Configs
  /\ modeFile \in Modes \cup {""}
  /\ turn = NoTurn

(* _read_mode; TCP_CC_PROXY_MODE is not set.                                *)
ReadMode == IF modeFile \in Modes THEN modeFile ELSE "shadow"

SetMode(m) ==
  /\ modeFile' = m
  /\ UNCHANGED <<config, turn>>

ProcessTools(q) ==
  /\ \E shortlist \in Shortlists(config, ReadMode, q) :
       turn' = [mode |-> ReadMode, request |-> q, shortlist |-> shortlist]
  /\ UNCHANGED <<config, modeFile>>

Next == (\E m \in Modes : SetMode(m)) \/ (\E q \in Requests : ProcessTools(q))

Spec == Init /\ [][Next]_vars

--------------------------------------------------------------------------------
Live == turn.mode = "live"
TurnSent == Sent(config, turn.mode, turn.request)
TurnStatus(k) == Status(config, turn.mode, turn.request, turn.shortlist, k)
TurnState(t) == ToolState(config, turn.request, t)
TurnDemoted == Demoted(config, turn.mode, turn.request, turn.shortlist)
Processed == turn.mode # ""
InFallback == EmptyFallback(config, turn.mode, turn.request)

TypeOK ==
  /\ config \in Configs
  /\ modeFile \in Modes \cup {""}
  /\ \/ turn = NoTurn
     \/ /\ turn.mode \in Modes
        /\ turn.request \in Requests
        /\ turn.shortlist \subseteq turn.request.offered

(* In live mode no tool of a suppressed server reaches the model, except    *)
(* the core coding tools and what stage 1 kept from stage 2, unless nothing *)
(* at all would be left.                                                    *)
LiveHidesSuppressed ==
  Live /\ ~InFallback =>
    \A t \in TurnSent :
      TurnState(t) = "suppressed" => t \in SafetyFloor \/ t \notin Stage1(config, turn.request)

(* A core coding tool that stage 1 let through reaches the model in live    *)
(* mode with its full schema, whatever the manifest, the policy and the     *)
(* reducer say of its server, unless the pack state itself defers it.       *)
FloorKept ==
  Live /\ "files" \in config.enabled =>
    \A t \in SafetyFloor \cap Stage1(config, turn.request) :
      /\ t \in TurnSent
      /\ TurnState(t) # "deferred" =>
           t \in SentFull(config, turn.mode, turn.request, turn.shortlist)

(* "Demotion never removes a tool name", and a demoted tool resolves as     *)
(* schema_deferred or callable through another tool, never as unavailable:  *)
(* the model is never told that it lacks a tool that the reducer stripped.  *)
DemotedStaysReachable ==
  Processed =>
    \A t \in TurnDemoted :
      /\ t \in TurnSent
      /\ \A k \in Capabilities :
           ServerOf[t] \in CapServers[k] =>
             TurnStatus(k) \in {"callable_now", "schema_deferred"}

(* Demotion can be undone from the name that is left: on the same request   *)
(* the tool comes in full if its name is the only evidence of the prompt,   *)
(* and if its server was called a moment ago.                               *)
DemotionIsReversible ==
  Processed =>
    \A t \in TurnDemoted :
      LET byName == [turn.request EXCEPT !.named = {t}, !.capabilities = {}]
          byCall == [turn.request EXCEPT !.recent = @ \cup {ServerOf[t]}]
      IN \A q \in {byName, byCall} :
           \A shortlist \in Shortlists(config, "live", q) :
             t \in SentFull(config, "live", q, shortlist)

(* The visibility floor: a server whose pack is activated here, or allowed  *)
(* for the workspace, is visible under any policy and prompt.               *)
VisibilityFloor ==
  Processed =>
    \A s \in Servers :
      HasFloor(config, s) => ServerState(config, turn.request.mentioned, s) # "suppressed"

(* A prompt that mentions one more server never costs the model a tool.     *)
MentionsOnlyAdd ==
  Processed /\ ~InFallback =>
    \A s \in Servers :
      LET more == [turn.request EXCEPT !.mentioned = @ \cup {s}]
      IN TurnSent \subseteq Sent(config, turn.mode, more)

(* In the two live modes a capability the resolver calls unavailable has no *)
(* tool among those sent, unless the whole array was sent back for want of  *)
(* any survivor.                                                            *)
UnavailableInLive ==
  Processed /\ turn.mode # "shadow" /\ ~InFallback =>
    \A k \in Capabilities :
      TurnStatus(k) = "unavailable" => Matching(TurnSent, k) = {}

--------------------------------------------------------------------------------
(* What documents and comments say and the code does not do.                *)

(* "Absence from visible tools is never evidence of unavailability": a      *)
(* denial is only let through when the model has no tool for the capability.*)
DenialOnlyIfAbsent ==
  Processed /\ DenialAllowed(config, turn.mode, turn.request, turn.shortlist) =>
    \E k \in turn.request.capabilities : Matching(TurnSent, k) = {}

(* "Ensure core coding tools survive unless Stage 1 made them               *)
(* environmentally impossible": one that stage 1 rejected stays away,       *)
(* unless nothing at all would be left.                                     *)
FloorWithinEnvironment ==
  Live /\ ~InFallback =>
    SafetyFloor \cap TurnSent \subseteq Stage1(config, turn.request)
================================================================================
