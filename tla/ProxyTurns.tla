------------------------------- MODULE ProxyTurns -------------------------------
(***************************************************************************)
(* Turns through the proxy from the tools array to the decision row:       *)
(* RecencyShield, which remembers the servers of a workspace that were     *)
(* called, composed with ToolGating, which shapes the tools array and may  *)
(* strip the schema of a tool whose server was not (tcp/proxy/cc_proxy.py).*)
(* The shield read on arrival goes into the shaping; the model calls tools *)
(* it was sent by name; their servers are noted when the response ends.    *)
(***************************************************************************)
EXTENDS RecencyShield

CONSTANTS     (* those of ToolGating, and its bounds                        *)
  Tools, Packs, Capabilities, NoServer, NoPack, CorePack, ServerOf, Flags,
  Static, SafetyFloor, CapServers, MaxShortlist, Configs,
  Prompts,      (* bound: the requests considered, without their shield     *)
  ModesSet      (* bound: the modes written to the mode file                *)

VARIABLES
  config, modeFile,     (* of ToolGating                                    *)
  shaped,       (* mode, request and shortlist of each turn that arrived    *)
  called,       (* history: the tools the response of each turn called      *)
  mine,         (* history: the turns this process logged                   *)
  before        (* history: for each turn, those logged when it arrived,    *)
                (* by this process and at all                               *)

proxyVars == <<vars, config, modeFile, shaped, called, mine, before>>

Gate == INSTANCE ToolGating WITH Requests <- Prompts, turn <- shaped

ASSUME ProxyAssumption ==
  /\ Gate!GatingAssumption
  /\ Configs # {} /\ Prompts # {}
  /\ ModesSet \subseteq Gate!Modes \cup {""}

--------------------------------------------------------------------------------
NotShaped == [mode |-> "", request |-> CHOOSE q \in Prompts : TRUE, shortlist |-> {}]

Logged == {r \in Requests : turns[r].phase = "done" /\ called[r] # {}}

ProxyInit ==
  /\ Init
  /\ config \in Configs
  /\ modeFile \in ModesSet
  /\ shaped = [r \in Requests |-> NotShaped]
  /\ called = [r \in Requests |-> {}]
  /\ mine = {}
  /\ before = [r \in Requests |-> [mine |-> {}, all |-> {}]]

(* Mutant of Shaping: the reducer is not told of the shield.                *)
ShapingUnshielded(prompt, shield) == [prompt EXCEPT !.recent = {}]

Shaping(prompt, shield) == [prompt EXCEPT !.recent = shield]

(* proxy_post_messages up to the send: the shield of the workspace is read  *)
(* and the tools array is shaped with it, with no await in between.         *)
ProxyArrive(r, w, prompt) ==
  /\ Arrive(r, w)
  /\ LET q == Shaping(prompt, turns'[r].shield)
     IN \E shortlist \in Gate!Shortlists(config, Gate!ReadMode, q) :
          shaped' = [shaped EXCEPT ![r] = [mode |-> Gate!ReadMode, request |-> q,
                                           shortlist |-> shortlist]]
  /\ before' = [before EXCEPT ![r] = [mine |-> mine, all |-> Logged]]
  /\ UNCHANGED <<config, modeFile, called, mine>>

SentTo(r) == Gate!Sent(config, shaped[r].mode, shaped[r].request)
DemotedFor(r) ==
  Gate!Demoted(config, shaped[r].mode, shaped[r].request, shaped[r].shortlist)

(* The response ends.  The model calls any of the names it was sent, one    *)
(* without its schema too; calls of built-in tools are not noted.           *)
ProxyFinish(r, tools) ==
  /\ tools \subseteq SentTo(r)
  /\ Finish(r, {ServerOf[t] : t \in tools} \ {NoServer})
  /\ called' = [called EXCEPT ![r] = tools]
  /\ mine' = mine \cup {r}
  /\ UNCHANGED <<config, modeFile, shaped, before>>

ProxyCrash ==
  /\ Crash
  /\ mine' = {}
  /\ UNCHANGED <<config, modeFile, shaped, called, before>>

(* Configuration and manifest are read again; they are the same here.       *)
ProxyRestart ==
  /\ Restart(Len(log))
  /\ UNCHANGED <<config, modeFile, shaped, called, mine, before>>

ProxyTick ==
  /\ Tick
  /\ UNCHANGED <<config, modeFile, shaped, called, mine, before>>

SetMode(m) ==
  /\ modeFile' = m
  /\ UNCHANGED <<vars, config, shaped, called, mine, before>>

ProxyNext ==
  \/ \E r \in Requests, w \in Workspaces, prompt \in Prompts : ProxyArrive(r, w, prompt)
  \/ \E r \in Requests : \E tools \in SUBSET SentTo(r) : ProxyFinish(r, tools)
  \/ ProxyCrash \/ ProxyRestart \/ ProxyTick
  \/ \E m \in ModesSet : SetMode(m)

ProxySpec == ProxyInit /\ [][ProxyNext]_proxyVars

--------------------------------------------------------------------------------
(* A tool the model called comes with its schema in the next turns of the   *)
(* workspace: no turn strips it that arrived once the call was logged and   *)
(* within the TTL of the turn that called, whatever order overlapping turns *)
(* end in, and whatever prompt, mode or shortlist comes with it.            *)
Owed(r, p) ==
  /\ turns[r].ws = turns[p].ws
  /\ turns[r].ts - turns[p].ts <= TTL

CalledComesInFull ==
  \A r \in Requests : \A p \in before[r].mine :
    Owed(r, p) => called[p] \cap DemotedFor(r) = {}

(* It also does after a restart, as long as the rows of the log are in the  *)
(* order of arrival: the warmed registry shields what the lost one did.     *)
RestartKeepsSchemas ==
  LogInOrder =>
    \A r \in Requests : \A p \in before[r].all :
      Owed(r, p) => called[p] \cap DemotedFor(r) = {}
================================================================================
