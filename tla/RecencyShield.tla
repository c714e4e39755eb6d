----------------------------- MODULE RecencyShield -----------------------------
(***************************************************************************)
(* The recency shield of the Claude-Code proxy (tcp/proxy/cc_proxy.py).    *)
(*                                                                         *)
(* The proxy keeps in memory, per workspace and MCP server, the arrival    *)
(* time of the newest turn in which that server was called.  A turn that   *)
(* arrives shields the servers whose stamp is at most TTL old; the calls   *)
(* of a turn are noted only when its response ends, with the time at which *)
(* the turn ARRIVED, and a row with that same time is appended to          *)
(* decisions.jsonl.  Turns overlap.  A restarted process warms the         *)
(* registry from the log, newest row first.                                *)
(*                                                                         *)
(* asyncio runs the handlers on one thread and neither the lookup nor the  *)
(* note-and-append awaits anything, so each is one step here.              *)
(***************************************************************************)
EXTENDS Integers, Sequences, FiniteSets, FiniteSetsExt

CONSTANTS
  Requests,          (* turns: one POST /v1/messages each                   *)
  Workspaces,        (* named workspaces (session.cwd)                      *)
  NoWorkspace,       (* a request whose session has no workspace            *)
  Servers,           (* MCP servers                                         *)
  TTL,               (* recency TTL, in clock ticks                         *)
  MaxClock,          (* bound: the last tick of the wall clock              *)
  MaxOpen,           (* bound: turns in flight at once                      *)
  WarmEnabled,       (* TCP_PROXY_REDUCER_WARM                              *)
  MayCrash,          (* the process may stop and be restarted               *)
  MayFail,           (* log writes and reads may fail or stop half way      *)
  ClockMayStepBack   (* time.time() may be set back                         *)

ASSUME ShieldAssumption ==
  /\ TTL \in Nat
  /\ MaxClock \in Nat
  /\ MaxOpen \in Nat
  /\ NoWorkspace \notin Workspaces
  /\ {WarmEnabled, MayCrash, MayFail, ClockMayStepBack} \subseteq BOOLEAN

VARIABLES
  clock,      (* time.time()                                                *)
  up,         (* the process is serving                                     *)
  registry,   (* _recent_server_calls: newest stamp per workspace, server   *)
  turns,      (* the requests, with the decision each one got               *)
  log,        (* the readable rows of decisions.jsonl, oldest first         *)
  tornTail,   (* the log ends with a line cut short                         *)
  noted,      (* history: calls noted by this process, warming included     *)
  observed    (* history: every call noted from a response                  *)

vars == <<clock, up, registry, turns, log, tornTail, noted, observed>>

--------------------------------------------------------------------------------
Never == -1
Stamp == 0 .. MaxClock
AnyWorkspace == Workspaces \cup {NoWorkspace}
Call == [ws : Workspaces, srv : Servers, ts : Stamp]

Row == [ws : AnyWorkspace, ts : Stamp, shield : SUBSET Servers,
        called : SUBSET Servers]

NewTurn == [phase |-> "new", ws |-> NoWorkspace, ts |-> Never, shield |-> {}]

Turn == {NewTurn} \cup [phase : {"open", "done"}, ws : AnyWorkspace,
                        ts : Stamp, shield : SUBSET Servers]

ColdRegistry == [w \in Workspaces |-> [s \in Servers |-> Never]]

OpenTurns == {r \in Requests : turns[r].phase = "open"}

--------------------------------------------------------------------------------
(* Mutant: the last turn to END wins, however old it is.                    *)
NoteCallsOverwriting(w, called, ts) ==
  [registry EXCEPT ![w] = [s \in Servers |-> IF s \in called THEN ts ELSE @[s]]]

(* Mutant: calls are stamped with the end of the response.                  *)
NoteCallsAtEnd(w, called, ts) ==
  [registry EXCEPT ![w] =
     [s \in Servers |-> IF s \in called THEN clock ELSE @[s]]]

(* _note_recent_tool_calls: the stamp of a server only ever moves forward,  *)
(* whatever the order in which overlapping turns end.                       *)
NoteCalls(w, called, ts) ==
  [registry EXCEPT ![w] =
     [s \in Servers |-> IF s \in called /\ ts > @[s] THEN ts ELSE @[s]]]

(* Mutant: the TTL is compared with one tick too many.                      *)
PruneLate(stamps, now) ==
  [s \in Servers |-> IF now - stamps[s] > TTL + 1 THEN Never ELSE stamps[s]]

(* Mutant: a server not called for a whole TTL is marked by its age.        *)
PruneToAge(stamps, now) ==
  [s \in Servers |-> IF now - stamps[s] > TTL THEN stamps[s] - now ELSE stamps[s]]

(* _recent_mcp_servers: what is left of a workspace once expired stamps     *)
(* have been pruned.                                                        *)
Prune(stamps, now) ==
  [s \in Servers |-> IF now - stamps[s] > TTL THEN Never ELSE stamps[s]]

CallsOf(w, called, ts) ==
  IF w = NoWorkspace
  THEN {}
  ELSE {[ws |-> w, srv |-> s, ts |-> ts] : s \in called}

(* Mutant: the horizon row itself is taken for an expired one.              *)
VisitedStrictly(k) ==
  {i \in (Len(log) - k + 1) .. Len(log) :
     \A j \in i .. Len(log) : log[j].ts > clock - TTL}

(* The rows a warming process visits when it reads the newest k rows: it    *)
(* walks backwards and stops at the first row older than the horizon ...    *)
Visited(k) ==
  {i \in (Len(log) - k + 1) .. Len(log) :
     \A j \in i .. Len(log) : log[j].ts >= clock - TTL}

(* ... and of those it notes every row that is not dated in the future.     *)
WarmCalls(k) ==
  IF ~WarmEnabled \/ TTL = 0
  THEN {}
  ELSE UNION {CallsOf(log[i].ws, log[i].called, log[i].ts) :
                i \in {j \in Visited(k) : log[j].ts <= clock}}

NewestStamp(calls, w, s) ==
  LET stamps == {c.ts : c \in {d \in calls : d.ws = w /\ d.srv = s}}
  IN  IF stamps = {} THEN Never ELSE Max(stamps)

WarmRegistry(calls) ==
  [w \in Workspaces |-> [s \in Servers |-> NewestStamp(calls, w, s)]]

--------------------------------------------------------------------------------
Init ==
  /\ clock = 0
  /\ up = TRUE
  /\ registry = ColdRegistry
  /\ turns = [r \in Requests |-> NewTurn]
  /\ log = <<>>
  /\ tornTail = FALSE
  /\ noted = {}
  /\ observed = {}

(* A turn with a parseable tools array arrives: its arrival time is taken,  *)
(* the registry of its workspace is pruned and read, and the tools array is *)
(* shaped, all before the next await.                                       *)
Arrive(r, w) ==
  LET stamps == Prune(registry[w], clock)
  IN  /\ up
      /\ turns[r].phase = "new"
      /\ Cardinality(OpenTurns) < MaxOpen
      /\ IF w = NoWorkspace
         THEN /\ turns' = [turns EXCEPT ![r] = [phase |-> "open", ws |-> w,
                                                ts |-> clock, shield |-> {}]]
              /\ UNCHANGED registry
         ELSE /\ turns' = [turns EXCEPT
                             ![r] = [phase |-> "open", ws |-> w, ts |-> clock,
                                     shield |-> {s \in Servers : stamps[s] # Never}]]
              /\ registry' = [registry EXCEPT ![w] = stamps]
      /\ UNCHANGED <<clock, up, log, tornTail, noted, observed>>

NoteTurn(r, called) ==
  LET t == turns[r]
      calls == CallsOf(t.ws, called, t.ts)
  IN  /\ registry' = IF t.ws = NoWorkspace
                     THEN registry
                     ELSE NoteCalls(t.ws, called, t.ts)
      /\ noted' = noted \cup calls
      /\ observed' = observed \cup calls
      /\ turns' = [turns EXCEPT ![r].phase = "done"]

(* A row appended behind a line cut short joins that line: the reader drops *)
(* both, and the newline it ends with makes the next row readable again.    *)
AppendRow(r, called) ==
  LET t == turns[r]
      row == [ws |-> t.ws, ts |-> t.ts, shield |-> t.shield, called |-> called]
  IN  /\ log' = IF tornTail THEN log ELSE Append(log, row)
      /\ tornTail' = FALSE

(* _write_decision_record at the end of a response whose tool calls went to *)
(* the servers in `called`.                                                 *)
Finish(r, called) ==
  /\ up
  /\ turns[r].phase = "open"
  /\ NoteTurn(r, called)
  /\ AppendRow(r, called)
  /\ UNCHANGED <<clock, up>>

(* The calls are noted, then the append raises.  The streaming handler      *)
(* tries again, which may complete a line the first try cut short.          *)
FinishUnlogged(r, called) ==
  /\ up
  /\ MayFail
  /\ turns[r].phase = "open"
  /\ NoteTurn(r, called)
  /\ tornTail' \in BOOLEAN
  /\ UNCHANGED <<clock, up, log>>

(* The process dies with its registry and the turns in flight, perhaps in   *)
(* the middle of an append.                                                 *)
Crash ==
  /\ MayCrash
  /\ up
  /\ up' = FALSE
  /\ registry' = ColdRegistry
  /\ noted' = {}
  /\ turns' = [r \in Requests |->
                 IF r \in OpenTurns THEN [turns[r] EXCEPT !.phase = "done"]
                                    ELSE turns[r]]
  /\ \/ UNCHANGED tornTail
     \/ /\ MayFail
        /\ OpenTurns # {}
        /\ tornTail' = TRUE
  /\ UNCHANGED <<clock, log, observed>>

(* _app_lifespan: the registry is warmed from the newest k rows of the log; *)
(* k is short of the whole log only when the read fails on the way.         *)
Restart(k) ==
  /\ ~up
  /\ k = Len(log) \/ MayFail
  /\ up' = TRUE
  /\ registry' = WarmRegistry(WarmCalls(k))
  /\ noted' = WarmCalls(k)
  /\ UNCHANGED <<clock, turns, log, tornTail, observed>>

Tick ==
  /\ clock < MaxClock
  /\ clock' = clock + 1
  /\ UNCHANGED <<up, registry, turns, log, tornTail, noted, observed>>

StepBack ==
  /\ ClockMayStepBack
  /\ clock' \in 0 .. (clock - 1)
  /\ UNCHANGED <<up, registry, turns, log, tornTail, noted, observed>>

Next ==
  \/ \E r \in Requests, w \in AnyWorkspace : Arrive(r, w)
  \/ \E r \in Requests, called \in SUBSET Servers : Finish(r, called)
  \/ \E r \in Requests, called \in SUBSET Servers : FinishUnlogged(r, called)
  \/ Crash
  \/ \E k \in 0 .. Len(log) : Restart(k)
  \/ Tick
  \/ StepBack

Spec == Init /\ [][Next]_vars

(* The promise this keeps: a decision is what a turn was given on arrival.  *)
Decisions ==
  [r \in Requests |-> [ws |-> turns[r].ws, ts |-> turns[r].ts, shield |-> turns[r].shield]]

Contract == INSTANCE ShieldContract WITH decided <- Decisions, Times <- Stamp

(* The proxy implements the contract: once given, no shield changes, and a  *)
(* registry, a log and a restarted process shield nothing the contract      *)
(* would not.                                                               *)
KeepsContract == Contract!Spec

--------------------------------------------------------------------------------
TypeOK ==
  /\ clock \in Stamp
  /\ up \in BOOLEAN
  /\ registry \in [Workspaces -> [Servers -> Stamp \cup {Never}]]
  /\ turns \in [Requests -> Turn]
  /\ log \in Seq(Row)
  /\ tornTail \in BOOLEAN
  /\ noted \in SUBSET Call
  /\ observed \in SUBSET Call

(* Every shield a turn was given is made of servers really called in its    *)
(* workspace at most TTL before it arrived, whatever crashes, warmings,     *)
(* torn lines and clock changes came in between.                            *)
ShieldOnlyObserved ==
  \A r \in Requests : \A s \in turns[r].shield :
    \E c \in observed :
      /\ c.ws = turns[r].ws
      /\ c.srv = s
      /\ turns[r].ts - c.ts <= TTL

(* Why it holds: a stamp in the registry is that of a call this process     *)
(* noted, it only notes calls observed from a response or read from a row,  *)
(* and rows hold observed calls only.                                       *)
StampsAreNoted ==
  \A w \in Workspaces, s \in Servers :
    registry[w][s] # Never =>
      [ws |-> w, srv |-> s, ts |-> registry[w][s]] \in noted

NotedAreObserved == noted \subseteq observed

RowsAreObserved ==
  \A i \in 1 .. Len(log) :
    CallsOf(log[i].ws, log[i].called, log[i].ts) \subseteq observed

ShieldInv ==
  TypeOK /\ StampsAreNoted /\ NotedAreObserved /\ RowsAreObserved /\ ShieldOnlyObserved

(* A call this process noted, or warmed itself with, protects its server    *)
(* until it expires: no slower, older turn that ends later, and no pruning, *)
(* takes the protection away early.  (As long as the clock only advances.)  *)
RegistryKeepsNewest ==
  up => \A c \in noted :
          clock - c.ts <= TTL => registry[c.ws][c.srv] >= c.ts

(* The offline replay of the log (scripts/replay_reducer_demotion.py): what *)
(* the rows before row i would have shielded at its time.                   *)
Replay(i) ==
  {s \in Servers :
     /\ log[i].ws # NoWorkspace
     /\ \E j \in 1 .. (i - 1) :
          /\ log[j].ws = log[i].ws
          /\ s \in log[j].called
          /\ log[i].ts - log[j].ts <= TTL}

(* As long as no log write fails, the replay never credits a turn with less *)
(* shield than it had live: a miss it counts was not shielded away.         *)
ReplayCoversLive ==
  \A i \in 1 .. Len(log) : log[i].shield \subseteq Replay(i)

(* Why it holds: without failing writes every noted call has its row, so    *)
(* the rows written before a turn ends cover the shield it arrived with.    *)
RowFor(c) ==
  \E i \in 1 .. Len(log) :
    log[i].ws = c.ws /\ c.srv \in log[i].called /\ log[i].ts = c.ts

OpenShieldLogged ==
  \A r \in OpenTurns : \A s \in turns[r].shield :
    /\ turns[r].ws # NoWorkspace
    /\ \E j \in 1 .. Len(log) :
         /\ log[j].ws = turns[r].ws
         /\ s \in log[j].called
         /\ turns[r].ts - log[j].ts <= TTL

ReplayInv ==
  /\ ShieldInv
  /\ tornTail = FALSE
  /\ \A c \in noted : RowFor(c)
  /\ OpenShieldLogged
  /\ ReplayCoversLive

(* A process that restarts recovers every call still within its TTL, as     *)
(* long as no turn was logged after one that arrived later.                 *)
Recovered ==
  up => \A c \in observed :
          clock - c.ts <= TTL => registry[c.ws][c.srv] >= c.ts

LogInOrder == \A i, j \in 1 .. Len(log) : i < j => log[i].ts <= log[j].ts

OrderedLogRestores == LogInOrder => Recovered

(* "Seeding the registry from the tail of the decision log closes that      *)
(* window": every call observed and still within its TTL is in the registry *)
(* of the process that serves, restarted or not.                            *)
WarmingRestoresShield == Recovered
================================================================================
