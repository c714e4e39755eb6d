---------------------------- MODULE ProxyTurnsProofs ----------------------------
(***************************************************************************)
(* Theorems about ProxyTurns, for every number of turns, every TTL, and    *)
(* any tools, servers, packs, configurations and prompts.                  *)
(*                                                                         *)
(* The turns are those of RecencyShield with a tools array, so what is     *)
(* proved of the registry holds here.  The invariant adds what links the   *)
(* two components: the shield a turn was shaped with is the one it was     *)
(* given on arrival, and it holds every server the turn is owed.           *)
(***************************************************************************)
EXTENDS ProxyTurns, RecencyShieldProofs

(* The tools of a set that belong to a server, and their servers.           *)
Mcp(tools) == {t \in tools : ServerOf[t] # NoServer}
ServersOf(tools) == {ServerOf[t] : t \in tools} \ {NoServer}

CallIn(p, t) == [ws |-> turns[p].ws, srv |-> ServerOf[t], ts |-> turns[p].ts]

ProxyTypeOK ==
  /\ config \in Configs
  /\ modeFile \in ModesSet
  /\ shaped \in [Requests -> [mode : Gate!Modes \cup {""}, request : Gate!RequestType,
                              shortlist : SUBSET Tools]]
  /\ called \in [Requests -> SUBSET Tools]
  /\ mine \subseteq Requests
  /\ before \in [Requests -> [mine : SUBSET Requests, all : SUBSET Requests]]

(* A turn is shaped on arrival, with its shield; only a turn that ended has *)
(* called anything; a turn looks back on turns that ended.                  *)
TurnsLinked ==
  /\ \A r \in Requests :
       turns[r].phase # "new" =>
         /\ turns[r].ws \in Workspaces
         /\ shaped[r].request.recent = turns[r].shield
  /\ \A r \in Requests : turns[r].phase # "done" => called[r] = {}
  /\ \A p \in mine : turns[p].phase = "done"
  /\ ~up => mine = {}
  /\ \A r \in Requests : \A p \in before[r].mine \cup before[r].all :
       turns[p].phase = "done" /\ turns[r].phase # "new"

(* What a turn called is noted by the process that logged it, and observed  *)
(* for good.                                                                *)
CallsNoted ==
  /\ \A p \in mine : \A t \in Mcp(called[p]) : CallIn(p, t) \in noted
  /\ \A p \in Requests : \A t \in Mcp(called[p]) : CallIn(p, t) \in observed

Shielded(r, p) ==
  Owed(r, p) => \A t \in Mcp(called[p]) : ServerOf[t] \in turns[r].shield

OwnCallsShielded == \A r \in Requests : \A p \in before[r].mine : Shielded(r, p)

AllCallsShielded ==
  LogInOrder => \A r \in Requests : \A p \in before[r].all : Shielded(r, p)

LinkInv == ProxyTypeOK /\ TurnsLinked /\ CallsNoted

--------------------------------------------------------------------------------
(* What the gate sends and lists is part of what was offered.               *)
LEMMA SentOffered ==
  ASSUME NEW c, NEW m, NEW q
  PROVE  /\ Gate!Survivors(c, m, q) \subseteq q.offered
         /\ Gate!Sent(c, m, q) \subseteq q.offered
<1>1. Gate!Survivors(c, m, q) \subseteq q.offered
  BY DEF Gate!Survivors, Gate!Stage2, Gate!StrictGate, Gate!Stage1, Gate!FloorRescued
<1> QED BY <1>1 DEF Gate!Sent, Gate!Emitted

LEMMA ShortlistsOffered ==
  ASSUME NEW c, NEW m, NEW q, NEW shortlist \in Gate!Shortlists(c, m, q)
  PROVE  shortlist \subseteq q.offered
BY SentOffered DEF Gate!Shortlists, Gate!Evidence

LEMMA ShapingFacts ==
  ASSUME NEW prompt \in Prompts, NEW shield \in SUBSET Servers
  PROVE  /\ Shaping(prompt, shield) \in Gate!RequestType
         /\ Shaping(prompt, shield).recent = shield
BY ProxyAssumption DEF Shaping, Gate!GatingAssumption, Gate!RequestType

LEMMA ServersKnown == ASSUME NEW tools \in SUBSET Tools PROVE ServersOf(tools) \in SUBSET Servers
BY ProxyAssumption DEF ServersOf, Gate!GatingAssumption

(* A tool of a shielded server is not demoted.                              *)
LEMMA ShieldedKept ==
  ASSUME NEW r \in Requests, NEW t \in DemotedFor(r)
  PROVE  ServerOf[t] # NoServer /\ ServerOf[t] \notin shaped[r].request.recent
BY DEF DemotedFor, Gate!Demoted, Gate!DemotionCandidates

--------------------------------------------------------------------------------
(* Every step of the composition is a step of the shield.                   *)
LEMMA StepsOfShield ==
  ASSUME TypeOK, ProxyTypeOK, [ProxyNext]_proxyVars
  PROVE  [Next]_vars
<1>1. ASSUME NEW r \in Requests, NEW w \in Workspaces, NEW prompt \in Prompts,
             ProxyArrive(r, w, prompt)
      PROVE  Next
  <2>1. w \in AnyWorkspace /\ Arrive(r, w)
    BY <1>1 DEF ProxyArrive, AnyWorkspace
  <2> QED BY <2>1 DEF Next
<1>2. ASSUME NEW r \in Requests, NEW tools \in SUBSET SentTo(r), ProxyFinish(r, tools)
      PROVE  Next
  <2>1. tools \in SUBSET Tools
    BY SentOffered DEF SentTo, ProxyTypeOK, Gate!RequestType
  <2>2. Finish(r, ServersOf(tools)) /\ ServersOf(tools) \in SUBSET Servers
    BY <1>2, <2>1, ServersKnown DEF ProxyFinish, ServersOf
  <2> QED BY <2>2 DEF Next
<1>3. CASE ProxyCrash
  BY <1>3 DEF ProxyCrash, Next
<1>4. CASE ProxyRestart
  <2>1. Restart(Len(log)) /\ Len(log) \in 0 .. Len(log)
    BY <1>4 DEF ProxyRestart, TypeOK
  <2> QED BY <2>1 DEF Next
<1>5. CASE ProxyTick
  BY <1>5 DEF ProxyTick, Next
<1>6. ASSUME NEW m, SetMode(m) PROVE UNCHANGED vars
  BY <1>6 DEF SetMode, vars
<1>7. CASE UNCHANGED proxyVars
  BY <1>7 DEF proxyVars
<1> QED BY <1>1, <1>2, <1>3, <1>4, <1>5, <1>6, <1>7 DEF ProxyNext

--------------------------------------------------------------------------------
LEMMA ProxyTypeInit == ProxyInit => ProxyTypeOK
<1> SUFFICES ASSUME ProxyInit PROVE ProxyTypeOK
  OBVIOUS
<1>1. NotShaped \in [mode : Gate!Modes \cup {""}, request : Gate!RequestType,
                     shortlist : SUBSET Tools]
  BY ProxyAssumption DEF NotShaped, Gate!GatingAssumption
<1> QED BY <1>1 DEF ProxyInit, ProxyTypeOK

LEMMA ShieldGiven ==
  ASSUME TypeOK', NEW r \in Requests, turns'[r].phase = "open"
  PROVE  turns'[r].shield \in SUBSET Servers
BY DEF TypeOK, Turn, NewTurn

LEMMA ProxyTypeNext ==
  ASSUME TypeOK, TypeOK', ProxyTypeOK, [ProxyNext]_proxyVars
  PROVE  ProxyTypeOK'
<1> USE DEF ProxyTypeOK
<1>1. ASSUME NEW r \in Requests, NEW w \in Workspaces, NEW prompt \in Prompts,
             ProxyArrive(r, w, prompt)
      PROVE  ProxyTypeOK'
  <2> DEFINE q == Shaping(prompt, turns'[r].shield)
  <2>1. PICK shortlist \in Gate!Shortlists(config, Gate!ReadMode, q) :
          shaped' = [shaped EXCEPT ![r] = [mode |-> Gate!ReadMode, request |-> q,
                                           shortlist |-> shortlist]]
    BY <1>1 DEF ProxyArrive
  <2>2. turns'[r].phase = "open"
    BY <1>1, ArriveOthers DEF ProxyArrive, AnyWorkspace
  <2>3. q \in Gate!RequestType
    BY <2>2, ShieldGiven, ShapingFacts
  <2>4. shortlist \in SUBSET Tools
    BY <2>3, ShortlistsOffered DEF Gate!RequestType
  <2>5. Gate!ReadMode \in Gate!Modes
    BY DEF Gate!ReadMode, Gate!Modes
  <2> HIDE DEF q
  <2>6. shaped' \in [Requests -> [mode : Gate!Modes \cup {""}, request : Gate!RequestType,
                                 shortlist : SUBSET Tools]]
    BY <2>1, <2>3, <2>4, <2>5
  <2>7. Logged \subseteq Requests
    BY DEF Logged
  <2> QED BY <1>1, <2>6, <2>7 DEF ProxyArrive
<1>2. ASSUME NEW r \in Requests, NEW tools \in SUBSET SentTo(r), ProxyFinish(r, tools)
      PROVE  ProxyTypeOK'
  <2>1. tools \in SUBSET Tools
    BY SentOffered DEF SentTo, Gate!RequestType
  <2> QED BY <1>2, <2>1 DEF ProxyFinish
<1>3. CASE ProxyCrash
  BY <1>3 DEF ProxyCrash
<1>4. CASE ProxyRestart \/ ProxyTick
  BY <1>4 DEF ProxyRestart, ProxyTick
<1>5. ASSUME NEW m \in ModesSet, SetMode(m) PROVE ProxyTypeOK'
  BY <1>5 DEF SetMode
<1>6. CASE UNCHANGED proxyVars
  BY <1>6 DEF proxyVars
<1> QED BY <1>1, <1>2, <1>3, <1>4, <1>5, <1>6 DEF ProxyNext

LEMMA TypesHold == ProxySpec => [](TypeOK /\ ProxyTypeOK)
<1>1. ProxyInit => TypeOK /\ ProxyTypeOK
  BY TypeInit, ProxyTypeInit DEF ProxyInit
<1>2. TypeOK /\ ProxyTypeOK /\ [ProxyNext]_proxyVars => (TypeOK /\ ProxyTypeOK)'
  BY StepsOfShield, TypeNext, ProxyTypeNext
<1> QED BY <1>1, <1>2, PTL DEF ProxySpec

(* Turns with a tools array are turns of the shield: the composition        *)
(* implements RecencyShield, and with it the contract of the shield.        *)
THEOREM TurnsImplementShield == ProxySpec => Spec /\ KeepsContract
<1>1. ProxyInit => Init
  BY DEF ProxyInit
<1>2. TypeOK /\ ProxyTypeOK /\ [ProxyNext]_proxyVars => [Next]_vars
  BY StepsOfShield
<1>3. ProxySpec => Spec
  BY <1>1, <1>2, TypesHold, PTL DEF ProxySpec, Spec
<1> QED BY <1>3, ShieldImplementsContract

--------------------------------------------------------------------------------
(* What a turn was given on arrival is never changed, and what it called is *)
(* settled when it ends.                                                    *)
Settled ==
  /\ \A r \in Requests :
       turns[r].phase # "new" =>
         /\ turns'[r].phase # "new"
         /\ turns'[r].ws = turns[r].ws /\ turns'[r].ts = turns[r].ts
         /\ turns'[r].shield = turns[r].shield
         /\ shaped'[r] = shaped[r] /\ before'[r] = before[r]
  /\ \A r \in Requests :
       turns[r].phase = "done" => turns'[r].phase = "done" /\ called'[r] = called[r]
  /\ observed \subseteq observed'

LEMMA StepsSettle ==
  ASSUME TypeOK, ProxyTypeOK, [ProxyNext]_proxyVars
  PROVE  Settled
<1> USE DEF TypeOK, ProxyTypeOK, Settled
<1>1. ASSUME NEW r \in Requests, NEW w \in Workspaces, NEW prompt \in Prompts,
             ProxyArrive(r, w, prompt)
      PROVE  Settled
  <2>1. turns[r].phase = "new" /\ \A q \in Requests \ {r} : turns'[q] = turns[q]
    BY <1>1, ArriveOthers DEF ProxyArrive, AnyWorkspace, Arrive
  <2>2. \A q \in Requests \ {r} : shaped'[q] = shaped[q] /\ before'[q] = before[q]
    BY <1>1 DEF ProxyArrive
  <2>3. called' = called /\ observed' = observed
    BY <1>1 DEF ProxyArrive, Arrive
  <2> QED BY <2>1, <2>2, <2>3
<1>2. ASSUME NEW r \in Requests, NEW tools \in SUBSET SentTo(r), ProxyFinish(r, tools)
      PROVE  Settled
  <2>1. turns[r].phase = "open" /\ turns' = [turns EXCEPT ![r].phase = "done"]
    BY <1>2 DEF ProxyFinish, Finish, NoteTurn
  <2>2. turns[r] \in [phase : {"open", "done"}, ws : AnyWorkspace, ts : Stamp,
                      shield : SUBSET Servers]
    BY <2>1, OpenTurnType
  <2>3. /\ \A q \in Requests \ {r} : turns'[q] = turns[q] /\ called'[q] = called[q]
        /\ turns'[r].phase = "done" /\ turns'[r].ws = turns[r].ws
        /\ turns'[r].ts = turns[r].ts /\ turns'[r].shield = turns[r].shield
    BY <1>2, <2>1, <2>2 DEF ProxyFinish
  <2>4. shaped' = shaped /\ before' = before /\ observed \subseteq observed'
    BY <1>2 DEF ProxyFinish, Finish, NoteTurn
  <2> QED BY <2>1, <2>3, <2>4
<1>3. CASE ProxyCrash
  <2>1. /\ turns' = [r \in Requests |->
                       IF r \in OpenTurns THEN [turns[r] EXCEPT !.phase = "done"]
                                          ELSE turns[r]]
        /\ UNCHANGED <<shaped, called, before, observed>>
    BY <1>3 DEF ProxyCrash, Crash
  <2>2. ASSUME NEW r \in Requests, r \in OpenTurns
        PROVE  /\ turns'[r].phase = "done" /\ turns'[r].ws = turns[r].ws
               /\ turns'[r].ts = turns[r].ts /\ turns'[r].shield = turns[r].shield
    <3>1. turns[r] \in [phase : {"open", "done"}, ws : AnyWorkspace, ts : Stamp,
                        shield : SUBSET Servers]
      BY <2>2, OpenTurnType DEF OpenTurns
    <3> QED BY <2>1, <2>2, <3>1
  <2> QED BY <2>1, <2>2 DEF OpenTurns
<1>4. CASE ProxyRestart \/ ProxyTick
  BY <1>4 DEF ProxyRestart, ProxyTick, Restart, Tick
<1>5. ASSUME NEW m \in ModesSet, SetMode(m) PROVE Settled
  BY <1>5 DEF SetMode, vars
<1>6. CASE UNCHANGED proxyVars
  BY <1>6 DEF proxyVars, vars
<1> QED BY <1>1, <1>2, <1>3, <1>4, <1>5, <1>6 DEF ProxyNext

--------------------------------------------------------------------------------
LEMMA LinkInit == ProxyInit => TurnsLinked /\ CallsNoted
BY DEF ProxyInit, Init, NewTurn, TurnsLinked, CallsNoted, Mcp

LEMMA BeforeSettled ==
  ASSUME ProxyTypeOK, TurnsLinked, Settled, NEW q \in Requests, before'[q] = before[q],
         NEW p \in before[q].mine \cup before[q].all
  PROVE  turns'[p].phase = "done" /\ turns'[q].phase # "new"
<1>1. p \in Requests /\ turns[p].phase = "done" /\ turns[q].phase # "new"
  BY DEF ProxyTypeOK, TurnsLinked
<1> QED BY <1>1 DEF Settled

(* A turn that has called something stands as it is, and so do its calls.   *)
LEMMA CallsSettled ==
  ASSUME TurnsLinked, Settled, NEW p \in Requests, called[p] # {}
  PROVE  called'[p] = called[p] /\ turns'[p].phase = "done" /\ \A t : CallIn(p, t)' = CallIn(p, t)
<1>1. turns[p].phase = "done"
  BY DEF TurnsLinked
<1> QED BY <1>1 DEF Settled, CallIn

LEMMA LinkNext ==
  ASSUME TypeOK, TypeOK', LinkInv, [ProxyNext]_proxyVars
  PROVE  (TurnsLinked /\ CallsNoted)'
<1> USE DEF LinkInv
<1>0. Settled
  BY StepsSettle
<1>1. ASSUME NEW r \in Requests, NEW w \in Workspaces, NEW prompt \in Prompts,
             ProxyArrive(r, w, prompt)
      PROVE  (TurnsLinked /\ CallsNoted)'
  <2>1. /\ turns[r].phase = "new" /\ up
        /\ \A q \in Requests \ {r} : turns'[q] = turns[q]
        /\ turns'[r].phase = "open" /\ turns'[r].ws = w
        /\ UNCHANGED <<up, noted, observed>>
    BY <1>1, ArriveOthers DEF ProxyArrive, AnyWorkspace, Arrive
  <2>2. /\ \A q \in Requests \ {r} : shaped'[q] = shaped[q] /\ before'[q] = before[q]
        /\ before'[r].mine = mine /\ before'[r].all = Logged
        /\ called' = called /\ mine' = mine
    BY <1>1 DEF ProxyArrive, ProxyTypeOK
  <2>3. shaped'[r].request.recent = turns'[r].shield
    <3>1. turns'[r].shield \in SUBSET Servers
      BY <2>1, ShieldGiven
    <3>2. PICK shortlist : shaped' = [shaped EXCEPT
            ![r] = [mode |-> Gate!ReadMode, request |-> Shaping(prompt, turns'[r].shield),
                    shortlist |-> shortlist]]
      BY <1>1 DEF ProxyArrive
    <3>3. shaped'[r].request = Shaping(prompt, turns'[r].shield)
      BY <3>2 DEF ProxyTypeOK
    <3> QED BY <3>1, <3>3, ShapingFacts
  <2>4. \A p \in mine \cup Logged : p \in Requests /\ turns[p].phase = "done"
    BY DEF TurnsLinked, Logged, ProxyTypeOK
  <2>5. TurnsLinked'
    <3>1. \A p \in mine \cup Logged : turns'[p].phase = "done"
      BY <2>1, <2>4
    <3>2. ASSUME NEW q \in Requests, NEW p \in before'[q].mine \cup before'[q].all
          PROVE  turns'[p].phase = "done" /\ turns'[q].phase # "new"
      <4>1. CASE q = r
        BY <2>1, <2>2, <3>1, <4>1
      <4>2. CASE q # r
        BY <1>0, <2>2, <4>2, BeforeSettled
      <4> QED BY <4>1, <4>2
    <3>3. \A q \in Requests : turns'[q].phase # "new" =>
            turns'[q].ws \in Workspaces /\ shaped'[q].request.recent = turns'[q].shield
      BY <2>1, <2>2, <2>3 DEF TurnsLinked
    <3>4. \A q \in Requests : turns'[q].phase # "done" => called'[q] = {}
      BY <2>1, <2>2 DEF TurnsLinked
    <3> QED BY <2>1, <2>2, <2>4, <3>1, <3>2, <3>3, <3>4 DEF TurnsLinked
  <2>6. CallsNoted'
    <3>1. ASSUME NEW p \in Requests, NEW t \in Mcp(called'[p])
          PROVE  /\ CallIn(p, t)' \in observed'
                 /\ p \in mine => CallIn(p, t)' \in noted'
      <4>1. t \in Mcp(called[p]) /\ called[p] # {}
        BY <2>2 DEF Mcp
      <4>2. CallIn(p, t)' = CallIn(p, t)
        BY <1>0, <4>1, CallsSettled
      <4> QED BY <2>1, <4>1, <4>2 DEF CallsNoted
    <3>2. mine' \subseteq Requests
      BY <2>2 DEF ProxyTypeOK
    <3> QED BY <2>2, <3>1, <3>2 DEF CallsNoted, Mcp
  <2> QED BY <2>5, <2>6
<1>2. ASSUME NEW r \in Requests, NEW tools \in SUBSET SentTo(r), ProxyFinish(r, tools)
      PROVE  (TurnsLinked /\ CallsNoted)'
  <2> DEFINE calls == CallsOf(turns[r].ws, ServersOf(tools), turns[r].ts)
  <2>1. /\ turns[r].phase = "open" /\ turns' = [turns EXCEPT ![r].phase = "done"] /\ up
        /\ noted' = noted \cup calls /\ observed' = observed \cup calls
        /\ called' = [called EXCEPT ![r] = tools] /\ mine' = mine \cup {r}
        /\ shaped' = shaped /\ before' = before /\ up' = up
    BY <1>2 DEF ProxyFinish, Finish, NoteTurn, ServersOf
  <2>2. turns'[r].phase = "done" /\ \A q \in Requests \ {r} : turns'[q] = turns[q]
    BY <2>1, OpenTurnType DEF TypeOK
  <2>3. called'[r] = tools /\ \A q \in Requests \ {r} : called'[q] = called[q]
    BY <2>1 DEF ProxyTypeOK
  <2>4. TurnsLinked'
    <3>1. \A q \in Requests : turns'[q].phase # "new" =>
            turns'[q].ws \in Workspaces /\ shaped'[q].request.recent = turns'[q].shield
      BY <1>0, <2>1, <2>2 DEF TurnsLinked, Settled
    <3>2. \A q \in Requests : turns'[q].phase # "done" => called'[q] = {}
      BY <2>2, <2>3 DEF TurnsLinked
    <3>3. \A q \in Requests : \A p \in before'[q].mine \cup before'[q].all :
            turns'[p].phase = "done" /\ turns'[q].phase # "new"
      BY <1>0, <2>1, BeforeSettled
    <3>4. \A p \in mine' : turns'[p].phase = "done"
      BY <2>1, <2>2 DEF TurnsLinked, ProxyTypeOK
    <3> QED BY <2>1, <3>1, <3>2, <3>3, <3>4 DEF TurnsLinked
  <2>5. \A t \in Mcp(tools) : CallIn(r, t)' \in calls
    <3>1. turns[r].ws \in Workspaces /\ turns[r].ws # NoWorkspace
      BY <2>1, ShieldAssumption DEF TurnsLinked
    <3>2. \A t : CallIn(r, t)' = CallIn(r, t)
      BY <1>0, <2>1 DEF CallIn, Settled
    <3> QED BY <3>1, <3>2 DEF CallsOf, CallIn, ServersOf, Mcp
  <2>6. CallsNoted'
    <3>1. \A t \in Mcp(called'[r]) : CallIn(r, t)' \in noted' /\ CallIn(r, t)' \in observed'
      BY <2>1, <2>3, <2>5
    <3>2. ASSUME NEW p \in Requests \ {r}, NEW t \in Mcp(called'[p])
          PROVE  /\ CallIn(p, t)' \in observed'
                 /\ p \in mine => CallIn(p, t)' \in noted'
      <4>1. t \in Mcp(called[p]) /\ called[p] # {}
        BY <2>3 DEF Mcp
      <4>2. CallIn(p, t)' = CallIn(p, t)
        BY <1>0, <4>1, CallsSettled
      <4> QED BY <2>1, <4>1, <4>2 DEF CallsNoted
    <3>3. \A p \in mine' : p = r \/ (p \in Requests \ {r} /\ p \in mine)
      BY <2>1 DEF ProxyTypeOK
    <3> QED BY <3>1, <3>2, <3>3 DEF CallsNoted, Mcp
  <2> QED BY <2>4, <2>6
<1>3. CASE ProxyCrash
  <2>1. /\ mine' = {} /\ ~up' /\ UNCHANGED <<shaped, called, before, observed>>
        /\ \A q \in Requests : turns'[q].phase # "new" => turns[q].phase # "new"
        /\ \A q \in Requests : turns'[q].phase # "done" => turns[q].phase # "done"
    <3>1. \A q \in OpenTurns : turns[q].phase = "open"
      BY DEF OpenTurns
    <3> QED BY <1>3, <3>1 DEF ProxyCrash, Crash
  <2>2. TurnsLinked'
    <3>1. \A q \in Requests : \A p \in before'[q].mine \cup before'[q].all :
            turns'[p].phase = "done" /\ turns'[q].phase # "new"
      BY <1>0, <2>1, BeforeSettled
    <3> QED BY <1>0, <2>1, <3>1 DEF TurnsLinked, Settled
  <2>3. ASSUME NEW p \in Requests, NEW t \in Mcp(called[p]) PROVE CallIn(p, t)' \in observed'
    <3>1. CallIn(p, t)' = CallIn(p, t)
      BY <1>0, CallsSettled DEF Mcp
    <3> QED BY <2>1, <3>1 DEF CallsNoted
  <2> QED BY <2>1, <2>2, <2>3 DEF CallsNoted, Mcp
<1>4. CASE ProxyRestart
  <2>1. ~up /\ mine = {} /\ UNCHANGED <<turns, observed, shaped, called, mine, before>> /\ up'
    BY <1>4 DEF ProxyRestart, Restart, TurnsLinked
  <2> QED BY <2>1 DEF TurnsLinked, CallsNoted, CallIn, Mcp
<1>5. CASE ProxyTick
  BY <1>5 DEF ProxyTick, Tick, TurnsLinked, CallsNoted, CallIn, Mcp
<1>6. ASSUME NEW m \in ModesSet, SetMode(m) PROVE (TurnsLinked /\ CallsNoted)'
  BY <1>6 DEF SetMode, vars, TurnsLinked, CallsNoted, CallIn, Mcp
<1>7. CASE UNCHANGED proxyVars
  BY <1>7 DEF proxyVars, vars, TurnsLinked, CallsNoted, CallIn, Mcp
<1> QED BY <1>1, <1>2, <1>3, <1>4, <1>5, <1>6, <1>7 DEF ProxyNext

LEMMA LinksHold == ProxySpec => [](TypeOK /\ LinkInv)
<1>1. ProxyInit => TypeOK /\ LinkInv
  BY TypeInit, ProxyTypeInit, LinkInit DEF ProxyInit, LinkInv
<1>2. TypeOK /\ LinkInv /\ [ProxyNext]_proxyVars => (TypeOK /\ LinkInv)'
  BY StepsOfShield, TypeNext, ProxyTypeNext, LinkNext DEF LinkInv
<1> QED BY <1>1, <1>2, PTL DEF ProxySpec

--------------------------------------------------------------------------------
(* A turn that arrives is shielded for a call whose stamp, or a newer one,  *)
(* is in the registry and within the TTL.                                   *)
LEMMA ArrivalCovers ==
  ASSUME TypeOK, NEW r \in Requests, NEW w \in Workspaces, Arrive(r, w),
         NEW c \in Call, c.ws = w, clock - c.ts <= TTL, registry[w][c.srv] >= c.ts
  PROVE  c.srv \in turns'[r].shield
<1>1. w # NoWorkspace /\ c.srv \in Servers
  BY ShieldAssumption DEF Call
<1>2. turns'[r].shield = {s \in Servers : Prune(registry[w], clock)[s] # Never}
  BY <1>1 DEF Arrive, TypeOK
<1>3. clock \in Int /\ TTL \in Int /\ c.ts \in Nat /\ registry[w][c.srv] \in Int
  BY <1>1, ShieldAssumption DEF TypeOK, Stamp, Call, Never
<1>4. ~(clock - registry[w][c.srv] > TTL) /\ registry[w][c.srv] # Never
  BY <1>3 DEF Never
<1> QED BY <1>1, <1>2, <1>4 DEF Prune

(* What turns looked back on is shielded, and stays so after every step:    *)
(* only an arrival has to be looked at, where the registry answers for the  *)
(* calls of the turns the new one looks back on.                            *)
LEMMA ShieldedStays ==
  ASSUME LinkInv, Settled, NEW q \in Requests, before'[q] = before[q],
         NEW p \in before[q].mine \cup before[q].all, Shielded(q, p)
  PROVE  Shielded(q, p)'
<1>1. /\ p \in Requests /\ turns[p].phase = "done" /\ turns[q].phase # "new"
  BY DEF LinkInv, ProxyTypeOK, TurnsLinked
<1>2. /\ turns'[p].ws = turns[p].ws /\ turns'[p].ts = turns[p].ts /\ called'[p] = called[p]
      /\ turns'[q].ws = turns[q].ws /\ turns'[q].ts = turns[q].ts
      /\ turns'[q].shield = turns[q].shield
  BY <1>1 DEF Settled
<1> QED BY <1>2 DEF Shielded, Owed, Mcp

LEMMA ArrivalShielded ==
  ASSUME TypeOK, LinkInv, NEW r \in Requests, NEW w \in Workspaces, Arrive(r, w), Settled,
         NEW p \in Requests, turns[p].phase = "done", called' = called,
         \A t \in Mcp(called[p]) :
           /\ CallIn(p, t) \in Call
           /\ clock - turns[p].ts <= TTL => registry[turns[p].ws][ServerOf[t]] >= turns[p].ts
  PROVE  Shielded(r, p)'
<1>1. turns'[r].ws = w /\ turns'[r].ts = clock
  BY ArriveOthers DEF AnyWorkspace
<1>2. turns'[p].ws = turns[p].ws /\ turns'[p].ts = turns[p].ts
  BY DEF Settled
<1>3. ASSUME NEW t \in Mcp(called[p]), turns[p].ws = w, clock - turns[p].ts <= TTL
      PROVE  ServerOf[t] \in turns'[r].shield
  <2>1. /\ CallIn(p, t).ws = w /\ CallIn(p, t).ts = turns[p].ts
        /\ CallIn(p, t).srv = ServerOf[t]
    BY <1>3 DEF CallIn
  <2> QED BY <1>3, <2>1, ArrivalCovers
<1> QED BY <1>1, <1>2, <1>3 DEF Shielded, Owed, Mcp

LEMMA OtherStepsKeepBefore ==
  ASSUME [ProxyNext]_proxyVars,
         ~ \E r \in Requests, w \in Workspaces, prompt \in Prompts : ProxyArrive(r, w, prompt)
  PROVE  before' = before
BY DEF ProxyNext, ProxyFinish, ProxyCrash, ProxyRestart, ProxyTick, SetMode, proxyVars

LEMMA OwnCallsNext ==
  ASSUME TypeOK, LinkInv, RegistryKeepsNewest, OwnCallsShielded, [ProxyNext]_proxyVars
  PROVE  OwnCallsShielded'
<1>0. Settled /\ ProxyTypeOK
  BY StepsSettle DEF LinkInv
<1>1. ASSUME NEW r \in Requests, NEW w \in Workspaces, NEW prompt \in Prompts,
             ProxyArrive(r, w, prompt)
      PROVE  OwnCallsShielded'
  <2>1. /\ Arrive(r, w) /\ up /\ called' = called /\ before'[r].mine = mine
        /\ \A q \in Requests \ {r} : before'[q] = before[q]
    BY <1>0, <1>1 DEF ProxyArrive, Arrive, ProxyTypeOK
  <2>2. ASSUME NEW p \in mine PROVE Shielded(r, p)'
    <3>1. p \in Requests /\ turns[p].phase = "done"
      BY DEF LinkInv, ProxyTypeOK, TurnsLinked
    <3>2. ASSUME NEW t \in Mcp(called[p])
          PROVE  /\ CallIn(p, t) \in Call
                 /\ clock - turns[p].ts <= TTL =>
                      registry[turns[p].ws][ServerOf[t]] >= turns[p].ts
      <4>1. CallIn(p, t) \in noted
        BY <3>2 DEF LinkInv, CallsNoted
      <4> QED BY <2>1, <4>1 DEF TypeOK, RegistryKeepsNewest, CallIn
    <3> QED BY <1>0, <2>1, <3>1, <3>2, ArrivalShielded
  <2>3. ASSUME NEW q \in Requests \ {r}, NEW p \in before'[q].mine PROVE Shielded(q, p)'
    BY <1>0, <2>1, ShieldedStays DEF OwnCallsShielded
  <2> QED BY <2>1, <2>2, <2>3 DEF OwnCallsShielded
<1>2. CASE before' = before
  BY <1>0, <1>2, ShieldedStays DEF OwnCallsShielded
<1> QED BY <1>1, <1>2, OtherStepsKeepBefore

(* The log only grows, so that one in order was in order before.            *)
LEMMA OrderWasKept ==
  ASSUME TypeOK, [ProxyNext]_proxyVars, LogInOrder'
  PROVE  LogInOrder
<1>1. log' = log \/ \E row : log' = Append(log, row)
  BY DEF ProxyNext, ProxyArrive, Arrive, ProxyFinish, Finish, AppendRow, ProxyCrash, Crash,
         ProxyRestart, Restart, ProxyTick, Tick, SetMode, proxyVars, vars
<1>2. /\ Len(log) \in Nat /\ Len(log) <= Len(log')
      /\ \A i \in 1 .. Len(log) : log'[i] = log[i]
  BY <1>1 DEF TypeOK
<1> SUFFICES ASSUME NEW i \in 1 .. Len(log), NEW j \in 1 .. Len(log), i < j
             PROVE  log[i].ts <= log[j].ts
  BY DEF LogInOrder
<1>3. i \in 1 .. Len(log') /\ j \in 1 .. Len(log')
  BY <1>2
<1> QED BY <1>2, <1>3 DEF LogInOrder

LEMMA AllCallsNext ==
  ASSUME TypeOK, LinkInv, OrderedLogRestores, AllCallsShielded, [ProxyNext]_proxyVars
  PROVE  AllCallsShielded'
<1> SUFFICES ASSUME LogInOrder'
             PROVE  \A q \in Requests : \A p \in before'[q].all : Shielded(q, p)'
  BY DEF AllCallsShielded
<1>0. Settled /\ ProxyTypeOK /\ Recovered /\ LogInOrder
  BY StepsSettle, OrderWasKept DEF LinkInv, OrderedLogRestores
<1>1. ASSUME NEW r \in Requests, NEW w \in Workspaces, NEW prompt \in Prompts,
             ProxyArrive(r, w, prompt), NEW q \in Requests, NEW p \in before'[q].all
      PROVE  Shielded(q, p)'
  <2>1. /\ Arrive(r, w) /\ up /\ called' = called /\ before'[r].all = Logged
        /\ q # r => before'[q] = before[q]
    BY <1>0, <1>1 DEF ProxyArrive, Arrive, ProxyTypeOK
  <2>2. CASE q = r
    <3>1. p \in Requests /\ turns[p].phase = "done"
      BY <1>1, <2>1, <2>2 DEF Logged
    <3>2. ASSUME NEW t \in Mcp(called[p])
          PROVE  /\ CallIn(p, t) \in Call
                 /\ clock - turns[p].ts <= TTL =>
                      registry[turns[p].ws][ServerOf[t]] >= turns[p].ts
      <4>1. CallIn(p, t) \in observed
        BY <3>1, <3>2 DEF LinkInv, CallsNoted
      <4> QED BY <1>0, <2>1, <4>1 DEF TypeOK, Recovered, CallIn
    <3> QED BY <1>0, <2>1, <2>2, <3>1, <3>2, ArrivalShielded
  <2>3. CASE q # r
    BY <1>0, <1>1, <2>1, <2>3, ShieldedStays DEF AllCallsShielded
  <2> QED BY <2>2, <2>3
<1>2. CASE before' = before
  BY <1>0, <1>2, ShieldedStays DEF AllCallsShielded
<1> QED BY <1>1, <1>2, OtherStepsKeepBefore

--------------------------------------------------------------------------------
(* What is shielded comes with its schema.                                  *)
LEMMA ShieldedComesInFull ==
  ASSUME LinkInv, NEW r \in Requests, NEW p \in before[r].mine \cup before[r].all,
         Shielded(r, p), Owed(r, p)
  PROVE  called[p] \cap DemotedFor(r) = {}
<1> SUFFICES ASSUME NEW t \in called[p], t \in DemotedFor(r) PROVE FALSE
  OBVIOUS
<1>1. shaped[r].request.recent = turns[r].shield
  BY DEF LinkInv, TurnsLinked
<1>2. ServerOf[t] # NoServer /\ ServerOf[t] \notin turns[r].shield
  BY <1>1, ShieldedKept
<1> QED BY <1>2 DEF Shielded, Mcp

(* While the clock only advances, no turn strips the schema of a tool that  *)
(* a turn logged before it arrived had called in its workspace within the   *)
(* TTL, for any number of overlapping turns, any tools, packs, modes,       *)
(* prompts and shortlists, with crashes and restarts in between.            *)
THEOREM SchemasKept ==
  ASSUME ~ClockMayStepBack
  PROVE  ProxySpec => []CalledComesInFull
<1>1. ProxyInit => OwnCallsShielded
  BY DEF ProxyInit, OwnCallsShielded
<1>2. ProxySpec => []RegistryKeepsNewest
  BY TurnsImplementShield, NewestKept, PTL
<1>3. TypeOK /\ LinkInv /\ RegistryKeepsNewest /\ OwnCallsShielded /\ [ProxyNext]_proxyVars
        => OwnCallsShielded'
  BY OwnCallsNext
<1>4. LinkInv /\ OwnCallsShielded => CalledComesInFull
  BY ShieldedComesInFull DEF OwnCallsShielded, CalledComesInFull
<1> QED BY <1>1, <1>2, <1>3, <1>4, LinksHold, PTL DEF ProxySpec

(* With warming on and a log that can be written, the same holds for the    *)
(* turns logged by an earlier process, as long as turns were logged in the  *)
(* order in which they arrived.                                             *)
THEOREM SchemasSurviveRestart ==
  ASSUME ~MayFail, ~ClockMayStepBack, WarmEnabled, TTL # 0
  PROVE  ProxySpec => []RestartKeepsSchemas
<1>1. ProxyInit => AllCallsShielded
  BY DEF ProxyInit, AllCallsShielded
<1>2. ProxySpec => []OrderedLogRestores
  BY TurnsImplementShield, OrderRestores, PTL
<1>3. TypeOK /\ LinkInv /\ OrderedLogRestores /\ AllCallsShielded /\ [ProxyNext]_proxyVars
        => AllCallsShielded'
  BY AllCallsNext
<1>4. LinkInv /\ AllCallsShielded => RestartKeepsSchemas
  BY ShieldedComesInFull DEF AllCallsShielded, RestartKeepsSchemas
<1> QED BY <1>1, <1>2, <1>3, <1>4, LinksHold, PTL DEF ProxySpec
================================================================================
