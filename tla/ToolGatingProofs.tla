--------------------------- MODULE ToolGatingProofs ---------------------------
(***************************************************************************)
(* Theorems about ToolGating.  What a turn promises is a fact about the    *)
(* operators of the pipeline, so every invariant follows from one: the     *)
(* last turn was made of a known mode, a known request and a shortlist the *)
(* reducer could have made of them.  At the end, one about ToolRouting.    *)
(***************************************************************************)
EXTENDS ToolGating, ToolRouting, FiniteSetTheorems, TLAPS

(* A request the pipeline was given, and a shortlist the reducer made.      *)
Sound(c, m, q, shortlist) ==
  /\ c \in ConfigType /\ m \in Modes /\ q \in RequestType
  /\ shortlist \in Shortlists(c, m, q)

IInv ==
  /\ TypeOK
  /\ Processed => Sound(config, turn.mode, turn.request, turn.shortlist)

--------------------------------------------------------------------------------
(* Nothing survives that was not offered.                                   *)
LEMMA SurvivorsOffered ==
  ASSUME NEW c, NEW m, NEW q
  PROVE  Survivors(c, m, q) \subseteq q.offered
BY DEF Survivors, Stage2, Stage1, StrictGate, FloorRescued

(* A shortlist is made of survivors, if there was evidence for it at all.   *)
LEMMA ShortlistsOffered ==
  ASSUME NEW c, NEW m, NEW q, NEW shortlist \in Shortlists(c, m, q)
  PROVE  shortlist \subseteq q.offered
<1>1. shortlist \subseteq Evidence(c, m, q)
  BY DEF Shortlists
<1>2. Evidence(c, m, q) \subseteq Survivors(c, m, q)
  BY DEF Evidence
<1> QED
  BY <1>1, <1>2, SurvivorsOffered

--------------------------------------------------------------------------------
(* Every variable keeps its type, and the last turn is one the pipeline     *)
(* could make.                                                              *)
LEMMA InvariantHolds == Spec => []IInv
<1>1. Init => IInv
  <2>1. NoTurn.mode = ""
    BY DEF NoTurn
  <2> QED
    BY <2>1 DEF Init, IInv, TypeOK, Processed
<1>2. IInv /\ [Next]_vars => IInv'
  <2> SUFFICES ASSUME IInv, [Next]_vars
               PROVE  IInv'
    OBVIOUS
  <2> USE DEF IInv, TypeOK
  <2>1. ASSUME NEW m \in Modes, SetMode(m)
        PROVE  IInv'
    BY <2>1 DEF SetMode, Processed
  <2>2. ASSUME NEW q \in Requests, ProcessTools(q)
        PROVE  IInv'
    <3>1. PICK shortlist \in Shortlists(config, ReadMode, q) :
            turn' = [mode |-> ReadMode, request |-> q, shortlist |-> shortlist]
      BY <2>2 DEF ProcessTools
    <3>2. ReadMode \in Modes
      BY DEF ReadMode, Modes
    <3>3. shortlist \subseteq q.offered
      BY ShortlistsOffered
    <3>4. /\ turn'.mode = ReadMode /\ turn'.request = q /\ turn'.shortlist = shortlist
          /\ config' = config /\ modeFile' = modeFile
      BY <2>2, <3>1 DEF ProcessTools
    <3>5. config \in ConfigType /\ q \in RequestType
      BY GatingAssumption
    <3> QED
      BY <3>1, <3>2, <3>3, <3>4, <3>5 DEF Sound
  <2>3. ASSUME UNCHANGED vars
        PROVE  IInv'
    BY <2>3 DEF vars, Processed
  <2> QED
    BY <2>1, <2>2, <2>3 DEF Next
<1> QED
  BY <1>1, <1>2, PTL DEF Spec

(* The types of configuration, mode file and turn, for any tools, servers,  *)
(* packs and requests.                                                      *)
THEOREM TypeCorrect == Spec => []TypeOK
<1>1. IInv => TypeOK
  BY DEF IInv
<1> QED
  BY <1>1, InvariantHolds, PTL

--------------------------------------------------------------------------------
(* A server with a visibility floor is at least deferred: under the policy, *)
(* by its manifest state and after any mention.                             *)
LEMMA FloorIsVisible ==
  ASSUME NEW c \in ConfigType, NEW mentioned, NEW s \in Servers, HasFloor(c, s)
  PROVE  ServerState(c, mentioned, s) # "suppressed"
<1>1. ManifestState(c, s) \in {"active", "deferred"}
  BY DEF HasFloor, ManifestState, PackState
<1> QED
  BY <1>1 DEF ServerState, Raised

(* The visibility floor holds of every turn: no policy and no prompt hides  *)
(* a server whose pack is activated here (server_state).                    *)
THEOREM VisibilityFloorHolds == Spec => []VisibilityFloor
<1>1. IInv => VisibilityFloor
  BY FloorIsVisible DEF IInv, VisibilityFloor, Sound
<1> QED
  BY <1>1, InvariantHolds, PTL

(* A mention never suppresses a tool that was not suppressed before it.     *)
LEMMA MentionRaises ==
  ASSUME NEW c \in ConfigType, NEW mentioned, NEW s \in Servers, NEW r,
         ServerState(c, mentioned, s) # "suppressed"
  PROVE  ServerState(c, mentioned \cup {r}, s) # "suppressed"
BY DEF ServerState, Raised

(* A tool that is sent in a turn is sent as well if the prompt mentions one *)
(* more server, unless the turn sent everything for want of a survivor.     *)
LEMMA MentionKeepsTools ==
  ASSUME NEW c \in ConfigType, NEW m \in Modes, NEW q \in RequestType, NEW s \in Servers,
         ~EmptyFallback(c, m, q), NEW t \in Sent(c, m, q)
  PROVE  t \in Sent(c, m, [q EXCEPT !.mentioned = @ \cup {s}])
<1> DEFINE more == [q EXCEPT !.mentioned = @ \cup {s}]
<1>1. /\ more.offered = q.offered /\ more.mentioned = q.mentioned \cup {s}
      /\ more.continuation = q.continuation /\ more.flags = q.flags
  BY DEF RequestType
<1> HIDE DEF more
<1>2. Stage1(c, more) = Stage1(c, q) /\ StrictGate(c, more) = StrictGate(c, q)
  BY <1>1 DEF Stage1, StrictGate, Hard, Heuristic, Required
<1>3. FloorRescued(c, m, more) = FloorRescued(c, m, q)
  BY <1>1 DEF FloorRescued
<1>4. Filtered(c, m, more) \subseteq Filtered(c, m, q)
  <2> SUFFICES ASSUME NEW u \in Filtered(c, m, more)
               PROVE  u \in Filtered(c, m, q)
    OBVIOUS
  <2>1. u \in Stage1(c, q) /\ m # "shadow" /\ ToolState(c, more, u) = "suppressed"
    BY <1>2 DEF Filtered
  <2>2. u \in Tools
    BY <2>1 DEF Stage1, RequestType
  <2>3. ServerOf[u] # NoServer
    BY <2>1 DEF ToolState
  <2>4. ServerOf[u] \in Servers
    BY <2>2, <2>3, GatingAssumption
  <2>5. ServerState(c, q.mentioned \cup {s}, ServerOf[u]) = "suppressed"
    BY <1>1, <2>1, <2>3 DEF ToolState
  <2>6. ServerState(c, q.mentioned, ServerOf[u]) = "suppressed"
    BY <2>4, <2>5, MentionRaises
  <2> QED
    BY <2>1, <2>3, <2>6 DEF Filtered, ToolState
<1>5. CASE m = "shadow"
  BY <1>1, <1>5 DEF Sent, more
<1>6. CASE m # "shadow"
  <2>1. t \in Emitted(c, m, q)
    BY <1>6 DEF Sent
  <2>2. t \in q.offered
    BY <2>1, SurvivorsOffered DEF Emitted
  <2>3. t \in Emitted(c, m, more)
    <3>1. Survivors(c, m, q) \subseteq Survivors(c, m, more)
      BY <1>2, <1>3, <1>4 DEF Survivors, Stage2
    <3> QED
      BY <1>1, <1>4, <2>1, <3>1 DEF Emitted
  <2> QED
    BY <1>1, <2>2, <2>3 DEF Sent, EmptyFallback, more
<1> QED
  BY <1>5, <1>6

(* Mentioning a server only adds tools (the monotone fourth step of         *)
(* server_state, through every later stage).                                *)
THEOREM MentionsNeverCost == Spec => []MentionsOnlyAdd
<1>1. IInv => MentionsOnlyAdd
  BY MentionKeepsTools DEF IInv, MentionsOnlyAdd, Sound, TurnSent, InFallback
<1> QED
  BY <1>1, InvariantHolds, PTL

--------------------------------------------------------------------------------
(* Stage 2 in live mode: a tool of a suppressed server that passed stage 1  *)
(* is only sent if it is a core coding tool.                                *)
THEOREM SuppressedHidden == Spec => []LiveHidesSuppressed
<1>1. ASSUME NEW c, NEW q, NEW t \in Emitted(c, "live", q),
             ToolState(c, q, t) = "suppressed", t \in Stage1(c, q)
      PROVE  t \in SafetyFloor
  <2>1. t \in Filtered(c, "live", q)
    BY <1>1 DEF Filtered
  <2>2. t \in Survivors(c, "live", q)
    BY <2>1 DEF Emitted
  <2> QED
    BY <2>1, <2>2 DEF Survivors, Stage2, FloorRescued
<1>2. LiveHidesSuppressed
  BY <1>1 DEF LiveHidesSuppressed, Live, TurnSent, Sent, InFallback, TurnState
<1> QED
  BY <1>2, PTL

(* The safety floor: core tools that stage 1 let through are sent in live   *)
(* mode, in full unless the state of their own server defers them, since    *)
(* demotion leaves them alone.                                              *)
THEOREM CoreToolsKept == Spec => []FloorKept
<1>1. ASSUME NEW c, NEW q, NEW shortlist, "files" \in c.enabled,
             NEW t \in SafetyFloor \cap Stage1(c, q)
      PROVE  /\ t \in Sent(c, "live", q)
             /\ ToolState(c, q, t) # "deferred" => t \in SentFull(c, "live", q, shortlist)
  <2>1. t \in Emitted(c, "live", q)
    BY <1>1 DEF Emitted, Survivors, FloorRescued, Stage1
  <2>2. t \notin Demoted(c, "live", q, shortlist)
    BY <1>1 DEF Demoted, DemotionCandidates
  <2> QED
    BY <1>1, <2>1, <2>2 DEF Sent, SentFull, Deferred, Stage1
<1>2. FloorKept
  BY <1>1 DEF FloorKept, Live, TurnSent, TurnState
<1> QED
  BY <1>2, PTL

--------------------------------------------------------------------------------
(* What demotion_candidates may touch, for any ranking of the reducer.      *)
LEMMA DemotedIsNarrow ==
  ASSUME NEW c, NEW m, NEW q, NEW shortlist, NEW t \in Demoted(c, m, q, shortlist)
  PROVE  /\ m = "live" /\ t \in Survivors(c, m, q) /\ shortlist # {}
         /\ t \notin SafetyFloor \cup shortlist
         /\ ServerOf[t] # NoServer /\ ServerOf[t] \notin q.recent
         /\ ToolState(c, q, t) = "active"
BY DEF Demoted, DemotionCandidates

(* What one prompt names or called a moment ago does not change what is     *)
(* left of the stages before the reducer.                                   *)
LEMMA SameSurvivors ==
  ASSUME NEW c, NEW m, NEW q \in RequestType, NEW r,
         r.offered = q.offered, r.mentioned = q.mentioned,
         r.continuation = q.continuation, r.flags = q.flags
  PROVE  /\ Survivors(c, m, r) = Survivors(c, m, q)
         /\ Emitted(c, m, r) = Emitted(c, m, q)
         /\ \A t : ToolState(c, r, t) = ToolState(c, q, t)
<1>1. \A t : ToolState(c, r, t) = ToolState(c, q, t)
  BY DEF ToolState
<1>2. Stage1(c, r) = Stage1(c, q) /\ StrictGate(c, r) = StrictGate(c, q)
  BY DEF Stage1, StrictGate, Hard, Heuristic, Required
<1>3. Filtered(c, m, r) = Filtered(c, m, q)
  BY <1>1, <1>2 DEF Filtered
<1>4. Survivors(c, m, r) = Survivors(c, m, q)
  BY <1>2, <1>3 DEF Survivors, Stage2, FloorRescued
<1>5. Emitted(c, m, r) = Emitted(c, m, q)
  BY <1>3, <1>4 DEF Emitted
<1> QED
  BY <1>1, <1>4, <1>5

(* An active survivor that is not demoted is sent in full.                  *)
LEMMA NotDemotedIsFull ==
  ASSUME NEW c, NEW q, NEW shortlist, NEW t \in Survivors(c, "live", q),
         ToolState(c, q, t) = "active", t \notin Demoted(c, "live", q, shortlist)
  PROVE  t \in SentFull(c, "live", q, shortlist)
BY SurvivorsOffered DEF SentFull, Emitted, Deferred

(* A tool that is the only evidence is the whole shortlist.                 *)
LEMMA SoleEvidence ==
  ASSUME NEW c, NEW m, NEW q, NEW t, Evidence(c, m, q) = {t},
         NEW shortlist \in Shortlists(c, m, q)
  PROVE  t \in shortlist
<1>1. Cardinality({t}) = 1 /\ Cardinality({}) = 0
  BY FS_Singleton, FS_EmptySet
<1>2. shortlist \subseteq {t} /\ Cardinality(shortlist) = 1
  BY <1>1, GatingAssumption DEF Shortlists
<1> QED
  BY <1>1, <1>2

(* Demotion can be undone: naming the tool, or having just called its       *)
(* server, brings its schema back.                                          *)
THEOREM DemotionUndone == Spec => []DemotionIsReversible
<1>1. ASSUME IInv, Processed, NEW t \in TurnDemoted
      PROVE  LET byName == [turn.request EXCEPT !.named = {t}, !.capabilities = {}]
                 byCall == [turn.request EXCEPT !.recent = @ \cup {ServerOf[t]}]
             IN \A q \in {byName, byCall} :
                  \A shortlist \in Shortlists(config, "live", q) :
                    t \in SentFull(config, "live", q, shortlist)
  <2> DEFINE byName == [turn.request EXCEPT !.named = {t}, !.capabilities = {}]
             byCall == [turn.request EXCEPT !.recent = @ \cup {ServerOf[t]}]
  <2>1. turn.request \in RequestType
    BY <1>1 DEF IInv, Sound
  <2>2. turn.mode = "live" /\ t \in Survivors(config, "live", turn.request)
        /\ ToolState(config, turn.request, t) = "active"
    BY <1>1, DemotedIsNarrow DEF TurnDemoted
  <2>3. ASSUME NEW q \in {byName, byCall}
        PROVE  t \in Survivors(config, "live", q) /\ ToolState(config, q, t) = "active"
    <3>1. q.offered = turn.request.offered /\ q.mentioned = turn.request.mentioned
          /\ q.continuation = turn.request.continuation /\ q.flags = turn.request.flags
      BY <2>1 DEF RequestType
    <3> QED
      BY <2>1, <2>2, <3>1, SameSurvivors
  <2>4. ASSUME NEW shortlist \in Shortlists(config, "live", byName)
        PROVE  t \in SentFull(config, "live", byName, shortlist)
    <3>1. byName.named = {t} /\ byName.capabilities = {}
      BY <2>1 DEF RequestType
    <3> HIDE DEF byName
    <3>2. FamilyServers(byName) = {}
      BY <3>1 DEF FamilyServers
    <3>3. t \in Survivors(config, "live", byName) /\ ToolState(config, byName, t) = "active"
      BY <2>3
    <3>4. Evidence(config, "live", byName) = {t}
      BY <3>1, <3>2, <3>3 DEF Evidence
    <3>5. t \in shortlist
      BY <2>4, <3>4, SoleEvidence
    <3>6. t \notin Demoted(config, "live", byName, shortlist)
      BY <3>5 DEF Demoted, DemotionCandidates
    <3> QED
      BY <3>3, <3>6, NotDemotedIsFull
  <2>5. ASSUME NEW shortlist \in Shortlists(config, "live", byCall)
        PROVE  t \in SentFull(config, "live", byCall, shortlist)
    <3>1. ServerOf[t] \in byCall.recent
      BY <2>1 DEF RequestType
    <3> HIDE DEF byCall
    <3>2. t \in Survivors(config, "live", byCall) /\ ToolState(config, byCall, t) = "active"
      BY <2>3
    <3>3. t \notin Demoted(config, "live", byCall, shortlist)
      BY <3>1 DEF Demoted, DemotionCandidates
    <3> QED
      BY <3>2, <3>3, NotDemotedIsFull
  <2> QED
    BY <2>4, <2>5
<1>2. IInv => DemotionIsReversible
  BY <1>1 DEF DemotionIsReversible
<1> QED
  BY <1>2, InvariantHolds, PTL

(* A tool that is sent resolves as something else than unavailable: with    *)
(* its schema it is visible, without it deferred.                           *)
LEMMA EmittedIsAvailable ==
  ASSUME NEW c, NEW m, NEW q, NEW shortlist, NEW k,
         NEW t \in Emitted(c, m, q), ServerOf[t] \in CapServers[k]
  PROVE  Status(c, m, q, shortlist, k) # "unavailable"
<1>1. CASE t \in Deferred(c, m, q, shortlist)
  BY <1>1 DEF Status, Matching
<1>2. CASE t \notin Deferred(c, m, q, shortlist)
  BY <1>2 DEF Status, Matching
<1> QED
  BY <1>1, <1>2

(* A demoted tool keeps its name and its capability keeps a way to it.      *)
THEOREM DemotionLosesNothing == Spec => []DemotedStaysReachable
<1>1. ASSUME NEW c, NEW m, NEW q, NEW shortlist, NEW t \in Demoted(c, m, q, shortlist)
      PROVE  /\ t \in Sent(c, m, q)
             /\ \A k \in Capabilities :
                  ServerOf[t] \in CapServers[k] =>
                    Status(c, m, q, shortlist, k) \in {"callable_now", "schema_deferred"}
  <2>1. m = "live" /\ t \in Emitted(c, m, q)
    BY <1>1, DemotedIsNarrow DEF Emitted
  <2>2. PolicyBlocked(c, m, q) = {}
    BY <2>1 DEF PolicyBlocked
  <2>3. \A k : Matching(PolicyBlocked(c, m, q), k) = {}
    BY <2>2 DEF Matching
  <2>4. ASSUME NEW k \in Capabilities, ServerOf[t] \in CapServers[k]
        PROVE  Status(c, m, q, shortlist, k) \in {"callable_now", "schema_deferred"}
    <3>1. Status(c, m, q, shortlist, k) # "unavailable"
      BY <2>1, <2>4, EmittedIsAvailable
    <3> QED
      BY <2>3, <3>1 DEF Status
  <2>5. t \in Sent(c, m, q)
    BY <2>1 DEF Sent, EmptyFallback
  <2> QED
    BY <2>4, <2>5
<1>2. DemotedStaysReachable
  BY <1>1 DEF DemotedStaysReachable, TurnDemoted, TurnSent, TurnStatus
<1> QED
  BY <1>2, PTL

(* In the live modes "unavailable" is the truth about what was sent.        *)
THEOREM UnavailableIsAbsent == Spec => []UnavailableInLive
<1>1. ASSUME Processed, turn.mode # "shadow", ~InFallback,
             NEW k \in Capabilities, TurnStatus(k) = "unavailable"
      PROVE  Matching(TurnSent, k) = {}
  <2>1. TurnSent = Emitted(config, turn.mode, turn.request)
    BY <1>1 DEF TurnSent, Sent, InFallback
  <2> QED
    BY <1>1, <2>1, EmittedIsAvailable DEF Matching, TurnStatus
<1>2. UnavailableInLive
  BY <1>1 DEF UnavailableInLive
<1> QED
  BY <1>2, PTL

--------------------------------------------------------------------------------
(* ToolRouting: the tools and what is routed over them are of their types.  *)
LEMMA AlwaysRouted == RouteSpec => []RouteTypeOK
<1>1. RouteInit => RouteTypeOK
  BY DEF RouteInit, RouteTypeOK
<1>2. RouteTypeOK /\ [RouteNext]_routeVars => RouteTypeOK'
  <2> SUFFICES ASSUME RouteTypeOK, [RouteNext]_routeVars PROVE RouteTypeOK'
    OBVIOUS
  <2> USE DEF RouteTypeOK
  <2>1. CASE UNCHANGED routeVars
    BY <2>1 DEF routeVars
  <2>2. ASSUME NEW t \in Records, AddTool(t) PROVE RouteTypeOK'
    BY <2>2 DEF AddTool
  <2>3. ASSUME NEW q \in Tasks, NEW e \in Environments, Route(q, e) PROVE RouteTypeOK'
    BY <2>3 DEF Route
  <2>4. CASE Forget
    BY <2>4 DEF Forget
  <2> QED BY <2>1, <2>2, <2>3, <2>4 DEF RouteNext
<1> QED BY <1>1, <1>2, PTL DEF RouteSpec

(* One tool, whose level is permitted: the masks say what the gate says.    *)
LEMMA RejectedByBoth ==
  ASSUME NEW t \in RecordType, NEW q \in TaskType, NEW e \in EnvironmentType,
         t.level \in e.permitted
  PROVE  RouteRejects(t, q, e) <=> GateRejects(t, q, e)
<1>1. t.flags \cap DenyMask(e) # {} <=> \E b \in Switchable : b \in t.flags /\ b \notin e.enabled
  BY DEF DenyMask
<1> QED BY <1>1 DEF RouteRejects, GateRejects, BitRejects

LEMMA ApprovedByBoth ==
  ASSUME NEW ts \in Seq(RecordType), NEW q \in TaskType, NEW e \in EnvironmentType,
         SameQuestions(ts, q, e)
  PROVE  RouteApproved(ts, q, e) = GateApproved(ts, q, e)
<1>1. ASSUME NEW i \in DOMAIN ts
      PROVE  (~RouteRejects(ts[i], q, e) /\ ~RouteAsks(ts[i], q, e))
               <=> (~GateRejects(ts[i], q, e) /\ ~GateAsks(ts[i], q))
  <2>1. ts[i] \in RecordType
    BY <1>1
  <2>2. RouteRejects(ts[i], q, e) <=> GateRejects(ts[i], q, e)
    BY <1>1, <2>1, RejectedByBoth DEF SameQuestions
  <2>3. RouteAsks(ts[i], q, e) <=> GateAsks(ts[i], q)
    BY <1>1 DEF SameQuestions, RouteAsks, GateAsks
  <2> QED BY <2>2, <2>3
<1> QED BY <1>1 DEF RouteApproved, GateApproved

(* Both select a tool of least cost among the approved ones, whatever the   *)
(* order of their lists.                                                    *)
LEMMA SelectedCostTheSame ==
  ASSUME NEW ts \in Seq(RecordType), NEW q \in TaskType, NEW e \in EnvironmentType,
         RouteApproved(ts, q, e) = GateApproved(ts, q, e),
         NEW i \in GateSelected(ts, q, e), NEW j \in RouteSelected(ts, q, e)
  PROVE  Cost(ts[i], q) = Cost(ts[j], q)
<1>1. i \in DOMAIN ts /\ j \in DOMAIN ts
  BY DEF GateSelected, GateApproved, RouteSelected, RouteApproved
<1>2. ts[i] \in RecordType /\ ts[j] \in RecordType
  BY <1>1
<1>3. Cost(ts[i], q) \in Nat /\ Cost(ts[j], q) \in Nat
  BY <1>2 DEF RecordType, Cost
<1>4. Cost(ts[i], q) <= Cost(ts[j], q)
  BY <1>3 DEF GateSelected, RouteSelected
<1>5. Cost(ts[j], q) <= Cost(ts[i], q)
  BY <1>3 DEF GateSelected, RouteSelected
<1> QED BY <1>3, <1>4, <1>5

(* The router over masks and the gate it replaced turn away and approve the *)
(* same tools, as far as they look at the same things, and what they select *)
(* costs the same, for any tools, tasks and environments.                   *)
THEOREM RoutersAgree == RouteSpec => []RouterAgreesWithGate
<1>1. RouteTypeOK => RouterAgreesWithGate
  <2> SUFFICES ASSUME RouteTypeOK, NEW r \in routed
      PROVE  /\ \A i \in DOMAIN inventory :
                  inventory[i].level \in r.env.permitted =>
                    (RouteRejects(inventory[i], r.task, r.env)
                       <=> GateRejects(inventory[i], r.task, r.env))
             /\ SameQuestions(inventory, r.task, r.env) =>
                  /\ RouteApproved(inventory, r.task, r.env)
                       = GateApproved(inventory, r.task, r.env)
                  /\ \A i \in GateSelected(inventory, r.task, r.env),
                       j \in RouteSelected(inventory, r.task, r.env) :
                       Cost(inventory[i], r.task) = Cost(inventory[j], r.task)
    BY DEF RouterAgreesWithGate
  <2>1. inventory \in Seq(RecordType) /\ r.task \in TaskType /\ r.env \in EnvironmentType
    BY RoutingAssumption DEF RouteTypeOK
  <2>2. \A i \in DOMAIN inventory : inventory[i] \in RecordType
    BY <2>1
  <2>3. ASSUME NEW i \in DOMAIN inventory, inventory[i].level \in r.env.permitted
        PROVE  RouteRejects(inventory[i], r.task, r.env)
                 <=> GateRejects(inventory[i], r.task, r.env)
    BY <2>1, <2>2, <2>3, RejectedByBoth
  <2>4. ASSUME SameQuestions(inventory, r.task, r.env)
        PROVE  RouteApproved(inventory, r.task, r.env) = GateApproved(inventory, r.task, r.env)
    BY <2>1, <2>4, ApprovedByBoth
  <2> QED BY <2>1, <2>3, <2>4, SelectedCostTheSame
<1> QED BY <1>1, AlwaysRouted, PTL
================================================================================
