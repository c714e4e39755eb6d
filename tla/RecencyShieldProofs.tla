-------------------------- MODULE RecencyShieldProofs --------------------------
(***************************************************************************)
(* Theorems about RecencyShield, for every number of turns, workspaces and *)
(* servers, every TTL and every bound.                                     *)
(***************************************************************************)
EXTENDS RecencyShield, NaturalsInduction, WellFoundedInduction, TLAPS

--------------------------------------------------------------------------------
(* A non-empty set of clock stamps has a newest one, so the Max of          *)
(* NewestStamp is defined.                                                  *)
LEMMA MaxOfStamps ==
  ASSUME NEW T \in SUBSET Stamp, T # {}
  PROVE  /\ Max(T) \in T
         /\ \A t \in T : t <= Max(T)
<1> DEFINE M == {n \in Nat : MaxClock - n \in T}
<1>1. \A t \in T : t \in Nat /\ MaxClock - t \in M
  BY ShieldAssumption DEF Stamp
<1>2. PICK m \in M : \A n \in M : ~(<<n, m>> \in OpToRel(<, Nat))
  <2>1. IsWellFoundedOn(OpToRel(<, Nat), Nat)
    BY NatLessThanWellFounded
  <2>2. M # {} /\ M \subseteq Nat
    BY <1>1
  <2> HIDE DEF M
  <2>3. QED
    BY <2>1, <2>2, WFMin
<1>3. \A n \in M : ~(n < m)
  <2>1. \A n \in M : <<n, m>> \in Nat \X Nat
    OBVIOUS
  <2>2. QED
    BY <1>2, <2>1 DEF OpToRel
<1>4. MaxClock - m \in T
  BY <1>2
<1>5. \A t \in T : MaxClock - m >= t
  <2>1. TAKE t \in T
  <2>2. ~(MaxClock - t < m)
    BY <1>1, <1>3
  <2>3. m \in Nat /\ t \in Nat /\ MaxClock \in Nat
    BY <1>1, ShieldAssumption
  <2>4. QED
    BY <2>2, <2>3
<1>6. QED
  BY <1>4, <1>5 DEF Max

(* What warming leaves for a server: the stamp of one of the calls it read, *)
(* and no older one than any of them.                                       *)
LEMMA NewestStampFacts ==
  ASSUME NEW calls \in SUBSET Call, NEW w \in Workspaces, NEW s \in Servers
  PROVE  /\ NewestStamp(calls, w, s) \in Stamp \cup {Never}
         /\ NewestStamp(calls, w, s) # Never =>
              [ws |-> w, srv |-> s, ts |-> NewestStamp(calls, w, s)] \in calls
         /\ \A c \in calls : c.ws = w /\ c.srv = s => c.ts <= NewestStamp(calls, w, s)
<1> DEFINE T == {c.ts : c \in {d \in calls : d.ws = w /\ d.srv = s}}
<1>1. T \in SUBSET Stamp
  BY DEF Call
<1>2. CASE T = {}
  <2>1. NewestStamp(calls, w, s) = Never
    BY <1>2 DEF NewestStamp
  <2>2. QED
    BY <1>2, <2>1
<1>3. CASE T # {}
  <2>1. Max(T) \in T /\ \A t \in T : t <= Max(T)
    BY <1>1, <1>3, MaxOfStamps
  <2>2. NewestStamp(calls, w, s) = Max(T)
    BY <1>3 DEF NewestStamp
  <2>3. PICK c \in calls : c.ws = w /\ c.srv = s /\ c.ts = Max(T)
    BY <2>1
  <2>4. c = [ws |-> w, srv |-> s, ts |-> Max(T)]
    BY <2>3 DEF Call
  <2>5. QED
    BY <1>1, <2>1, <2>2, <2>3, <2>4
<1>4. QED
  BY <1>2, <1>3

(* Calls read from rows are well formed, and are calls the rows hold.       *)
LEMMA WarmCallsFacts ==
  ASSUME TypeOK, NEW k \in 0 .. Len(log)
  PROVE  /\ WarmCalls(k) \in SUBSET Call
         /\ RowsAreObserved => WarmCalls(k) \subseteq observed
         /\ \A c \in WarmCalls(k) : RowFor(c)
<1> SUFFICES ASSUME NEW c \in WarmCalls(k)
             PROVE  c \in Call /\ (RowsAreObserved => c \in observed) /\ RowFor(c)
  OBVIOUS
<1>1. PICK i \in Visited(k) : c \in CallsOf(log[i].ws, log[i].called, log[i].ts)
  BY DEF WarmCalls
<1>2. i \in 1 .. Len(log)
  BY <1>1 DEF Visited, TypeOK
<1>3. log[i] \in Row
  BY <1>2 DEF TypeOK
<1>4. PICK s \in log[i].called :
        log[i].ws # NoWorkspace /\ c = [ws |-> log[i].ws, srv |-> s, ts |-> log[i].ts]
  BY <1>1 DEF CallsOf
<1>5. c \in Call
  BY <1>3, <1>4 DEF Row, Call, AnyWorkspace
<1>6. RowFor(c)
  BY <1>2, <1>4 DEF RowFor
<1>7. QED
  BY <1>1, <1>2, <1>5, <1>6 DEF RowsAreObserved

--------------------------------------------------------------------------------
LEMMA TypeInit == Init => TypeOK
<1> SUFFICES ASSUME Init
             PROVE  TypeOK
  OBVIOUS
<1>1. clock \in Stamp
  BY ShieldAssumption DEF Init, Stamp
<1>2. registry \in [Workspaces -> [Servers -> Stamp \cup {Never}]]
  BY DEF Init, ColdRegistry
<1>3. turns \in [Requests -> Turn]
  BY DEF Init, Turn
<1>4. log \in Seq(Row)
  BY DEF Init
<1>5. noted \in SUBSET Call /\ observed \in SUBSET Call
  BY DEF Init
<1>6. up \in BOOLEAN /\ tornTail \in BOOLEAN
  BY DEF Init
<1>7. QED
  BY <1>1, <1>2, <1>3, <1>4, <1>5, <1>6 DEF TypeOK

LEMMA TypeNext == TypeOK /\ [Next]_vars => TypeOK'
<1> SUFFICES ASSUME TypeOK, [Next]_vars
             PROVE  TypeOK'
  OBVIOUS
<1> USE DEF TypeOK
<1>1. ASSUME NEW r \in Requests, NEW w \in AnyWorkspace, Arrive(r, w)
      PROVE  TypeOK'
  <2> DEFINE stamps == Prune(registry[w], clock)
  <2>1. w \in Workspaces => stamps \in [Servers -> Stamp \cup {Never}]
    BY DEF Prune
  <2>2. registry' \in [Workspaces -> [Servers -> Stamp \cup {Never}]]
    BY <1>1, <2>1 DEF Arrive, AnyWorkspace
  <2>3. PICK sh \in SUBSET Servers :
          turns' = [turns EXCEPT ![r] = [phase |-> "open", ws |-> w,
                                         ts |-> clock, shield |-> sh]]
    BY <1>1 DEF Arrive
  <2>4. turns' \in [Requests -> Turn]
    BY <2>3 DEF Turn
  <2>5. QED
    BY <1>1, <2>2, <2>4 DEF Arrive
<1>2. ASSUME NEW r \in Requests, NEW called \in SUBSET Servers,
             turns[r].phase = "open", NoteTurn(r, called)
      PROVE  /\ registry' \in [Workspaces -> [Servers -> Stamp \cup {Never}]]
             /\ turns' \in [Requests -> Turn]
             /\ noted' \in SUBSET Call
             /\ observed' \in SUBSET Call
  <2>1. turns[r] \in [phase : {"open", "done"}, ws : AnyWorkspace,
                      ts : Stamp, shield : SUBSET Servers]
    BY <1>2 DEF Turn, NewTurn
  <2>2. CallsOf(turns[r].ws, called, turns[r].ts) \in SUBSET Call
    BY <2>1 DEF CallsOf, Call, AnyWorkspace
  <2>3. [turns[r] EXCEPT !.phase = "done"] \in Turn
    BY <2>1 DEF Turn
  <2>4. turns' \in [Requests -> Turn]
    BY <1>2, <2>3 DEF NoteTurn
  <2>5. registry' \in [Workspaces -> [Servers -> Stamp \cup {Never}]]
    <3>1. CASE turns[r].ws = NoWorkspace
      BY <1>2, <3>1 DEF NoteTurn
    <3>2. CASE turns[r].ws # NoWorkspace
      <4>1. registry' = NoteCalls(turns[r].ws, called, turns[r].ts)
        BY <1>2, <3>2 DEF NoteTurn
      <4>2. QED
        BY <2>1, <3>2, <4>1 DEF NoteCalls, AnyWorkspace
    <3>3. QED
      BY <3>1, <3>2
  <2>6. QED
    BY <1>2, <2>2, <2>4, <2>5 DEF NoteTurn
<1>3. ASSUME NEW r \in Requests, NEW called \in SUBSET Servers, Finish(r, called)
      PROVE  TypeOK'
  <2>1. turns[r].phase = "open" /\ NoteTurn(r, called)
    BY <1>3 DEF Finish
  <2>2. turns[r] \in [phase : {"open", "done"}, ws : AnyWorkspace,
                      ts : Stamp, shield : SUBSET Servers]
    BY <2>1 DEF Turn, NewTurn
  <2>3. log' \in Seq(Row)
    <3> DEFINE row == [ws |-> turns[r].ws, ts |-> turns[r].ts,
                       shield |-> turns[r].shield, called |-> called]
    <3>1. row \in Row
      BY <2>2 DEF Row
    <3>2. log' = log \/ log' = Append(log, row)
      BY <1>3 DEF Finish, AppendRow
    <3> HIDE DEF row
    <3>3. QED
      BY <3>1, <3>2
  <2>4. QED
    BY <1>2, <1>3, <2>1, <2>3 DEF Finish, AppendRow
<1>4. ASSUME NEW r \in Requests, NEW called \in SUBSET Servers, FinishUnlogged(r, called)
      PROVE  TypeOK'
  BY <1>2, <1>4 DEF FinishUnlogged
<1>5. CASE Crash
  <2>1. turns' \in [Requests -> Turn]
    <3>1. \A r \in OpenTurns : [turns[r] EXCEPT !.phase = "done"] \in Turn
      BY DEF OpenTurns, Turn, NewTurn
    <3>2. QED
      BY <1>5, <3>1 DEF Crash
  <2>2. tornTail' \in BOOLEAN
    BY <1>5 DEF Crash
  <2>3. QED
    BY <1>5, <2>1, <2>2 DEF Crash, ColdRegistry
<1>6. ASSUME NEW k \in 0 .. Len(log), Restart(k)
      PROVE  TypeOK'
  <2>1. WarmCalls(k) \in SUBSET Call
    BY <1>6, WarmCallsFacts
  <2>2. WarmRegistry(WarmCalls(k)) \in [Workspaces -> [Servers -> Stamp \cup {Never}]]
    BY <2>1, NewestStampFacts DEF WarmRegistry
  <2>3. QED
    BY <1>6, <2>1, <2>2 DEF Restart
<1>7. CASE Tick
  BY <1>7, ShieldAssumption DEF Tick, Stamp
<1>8. CASE StepBack
  BY <1>8, ShieldAssumption DEF StepBack, Stamp
<1>9. CASE UNCHANGED vars
  BY <1>9 DEF vars
<1>10. QED
  BY <1>1, <1>3, <1>4, <1>5, <1>6, <1>7, <1>8, <1>9 DEF Next

(* The variables always hold values of their types.                         *)
THEOREM TypeCorrect == Spec => []TypeOK
<1>1. QED
  BY TypeInit, TypeNext, PTL DEF Spec

--------------------------------------------------------------------------------
(* What the end of a turn does to the registry and the histories, whether   *)
(* its row is appended or not.                                              *)
LEMMA OpenTurnType ==
  ASSUME TypeOK, NEW r \in Requests, turns[r].phase = "open"
  PROVE  turns[r] \in [phase : {"open", "done"}, ws : AnyWorkspace,
                       ts : Stamp, shield : SUBSET Servers]
BY DEF TypeOK, Turn, NewTurn

LEMMA NoteTurnKeepsShieldInv ==
  ASSUME ShieldInv, TypeOK', NEW r \in Requests, NEW called \in SUBSET Servers,
         turns[r].phase = "open", NoteTurn(r, called)
  PROVE  /\ StampsAreNoted' /\ NotedAreObserved' /\ ShieldOnlyObserved'
         /\ CallsOf(turns[r].ws, called, turns[r].ts) \subseteq observed'
         /\ observed \subseteq observed'
<1> DEFINE t == turns[r]
           calls == CallsOf(t.ws, called, t.ts)
<1>1. t \in [phase : {"open", "done"}, ws : AnyWorkspace, ts : Stamp, shield : SUBSET Servers]
  BY OpenTurnType DEF ShieldInv
<1>2. noted' = noted \cup calls /\ observed' = observed \cup calls
  BY DEF NoteTurn
<1>3. \A q \in Requests : /\ turns'[q].shield = turns[q].shield
                          /\ turns'[q].ws = turns[q].ws
                          /\ turns'[q].ts = turns[q].ts
  BY <1>1 DEF NoteTurn, ShieldInv, TypeOK
<1>4. StampsAreNoted'
  <2> SUFFICES ASSUME NEW w \in Workspaces, NEW s \in Servers, registry'[w][s] # Never
               PROVE  [ws |-> w, srv |-> s, ts |-> registry'[w][s]] \in noted'
    BY DEF StampsAreNoted
  <2>1. CASE registry'[w][s] = registry[w][s]
    BY <1>2, <2>1 DEF ShieldInv, StampsAreNoted
  <2>2. CASE registry'[w][s] # registry[w][s]
    <3>1. /\ t.ws # NoWorkspace
          /\ registry' = NoteCalls(t.ws, called, t.ts)
      BY <2>2 DEF NoteTurn
    <3>2. w = t.ws /\ s \in called /\ registry'[w][s] = t.ts
      BY <2>2, <3>1 DEF NoteCalls, ShieldInv, TypeOK
    <3>3. QED
      BY <1>2, <3>1, <3>2 DEF CallsOf
  <2>3. QED
    BY <2>1, <2>2
<1>5. ShieldOnlyObserved'
  BY <1>2, <1>3 DEF ShieldInv, ShieldOnlyObserved
<1>6. QED
  BY <1>2, <1>4, <1>5 DEF ShieldInv, NotedAreObserved

LEMMA ShieldInvInit == Init => ShieldInv
<1> SUFFICES ASSUME Init
             PROVE  ShieldInv
  OBVIOUS
<1>1. TypeOK
  BY TypeInit
<1>2. StampsAreNoted
  BY DEF Init, ColdRegistry, StampsAreNoted
<1>3. ShieldOnlyObserved
  BY DEF Init, NewTurn, ShieldOnlyObserved
<1>4. QED
  BY <1>1, <1>2, <1>3 DEF Init, ShieldInv, NotedAreObserved, RowsAreObserved

(* The shield a turn arrives with: servers whose stamp is not expired.      *)
LEMMA ArrivalShield ==
  ASSUME TypeOK, NEW r \in Requests, NEW w \in AnyWorkspace, Arrive(r, w),
         NEW s \in turns'[r].shield
  PROVE  /\ w \in Workspaces
         /\ s \in Servers
         /\ registry[w][s] # Never
         /\ clock - registry[w][s] <= TTL
<1>1. w # NoWorkspace
  BY DEF Arrive, TypeOK
<1>2. turns'[r].shield = {q \in Servers : Prune(registry[w], clock)[q] # Never}
  BY <1>1 DEF Arrive, TypeOK
<1>3. s \in Servers /\ Prune(registry[w], clock)[s] # Never
  BY <1>2
<1>4. w \in Workspaces
  BY <1>1 DEF AnyWorkspace
<1>5. ~(clock - registry[w][s] > TTL) /\ registry[w][s] # Never
  BY <1>3 DEF Prune
<1>6. clock \in Int /\ registry[w][s] \in Int /\ TTL \in Int
  BY <1>3, <1>4, ShieldAssumption DEF TypeOK, Stamp, Never
<1>7. QED
  BY <1>3, <1>4, <1>5, <1>6

LEMMA ArriveOthers ==
  ASSUME TypeOK, NEW r \in Requests, NEW w \in AnyWorkspace, Arrive(r, w)
  PROVE  /\ \A q \in Requests \ {r} : turns'[q] = turns[q]
         /\ turns'[r].phase = "open" /\ turns'[r].ws = w /\ turns'[r].ts = clock
         /\ UNCHANGED <<clock, up, log, tornTail, noted, observed>>
         /\ \A v \in Workspaces, s \in Servers :
              \/ registry'[v][s] = registry[v][s]
              \/ /\ registry'[v][s] = Never
                 /\ clock - registry[v][s] > TTL
<1>1. \A v \in Workspaces, s \in Servers :
              \/ registry'[v][s] = registry[v][s]
              \/ /\ registry'[v][s] = Never
                 /\ clock - registry[v][s] > TTL
  BY DEF Arrive, Prune, TypeOK
<1>2. QED
  BY <1>1 DEF Arrive, TypeOK

LEMMA ShieldInvNext == ShieldInv /\ [Next]_vars => ShieldInv'
<1> SUFFICES ASSUME ShieldInv, [Next]_vars
             PROVE  ShieldInv'
  OBVIOUS
<1>0. TypeOK /\ TypeOK'
  BY TypeNext DEF ShieldInv
<1>1. ASSUME NEW r \in Requests, NEW w \in AnyWorkspace, Arrive(r, w)
      PROVE  ShieldInv'
  <2>1. StampsAreNoted'
    BY <1>0, <1>1, ArriveOthers DEF ShieldInv, StampsAreNoted
  <2>2. ShieldOnlyObserved'
    <3> SUFFICES ASSUME NEW q \in Requests, NEW s \in turns'[q].shield
                 PROVE  \E c \in observed' :
                          /\ c.ws = turns'[q].ws
                          /\ c.srv = s
                          /\ turns'[q].ts - c.ts <= TTL
      BY DEF ShieldOnlyObserved
    <3>1. CASE q = r
      <4>1. /\ w \in Workspaces /\ s \in Servers /\ registry[w][s] # Never
            /\ clock - registry[w][s] <= TTL
        BY <1>0, <1>1, <3>1, ArrivalShield
      <4>2. [ws |-> w, srv |-> s, ts |-> registry[w][s]] \in observed
        BY <4>1 DEF ShieldInv, StampsAreNoted, NotedAreObserved
      <4>3. QED
        BY <1>0, <1>1, <3>1, <4>1, <4>2, ArriveOthers
    <3>2. CASE q # r
      BY <1>0, <1>1, <3>2, ArriveOthers DEF ShieldInv, ShieldOnlyObserved
    <3>3. QED
      BY <3>1, <3>2
  <2>3. QED
    BY <1>0, <1>1, <2>1, <2>2 DEF ShieldInv, Arrive, NotedAreObserved, RowsAreObserved
<1>2. ASSUME NEW r \in Requests, NEW called \in SUBSET Servers, Finish(r, called)
      PROVE  ShieldInv'
  <2>1. turns[r].phase = "open" /\ NoteTurn(r, called)
    BY <1>2 DEF Finish
  <2>2. /\ StampsAreNoted' /\ NotedAreObserved' /\ ShieldOnlyObserved'
        /\ CallsOf(turns[r].ws, called, turns[r].ts) \subseteq observed'
        /\ observed \subseteq observed'
    BY <1>0, <2>1, NoteTurnKeepsShieldInv
  <2>3. RowsAreObserved'
    <3> DEFINE row == [ws |-> turns[r].ws, ts |-> turns[r].ts,
                       shield |-> turns[r].shield, called |-> called]
    <3>1. log' = log \/ log' = Append(log, row)
      BY <1>2 DEF Finish, AppendRow
    <3>2. \A i \in 1 .. Len(log') : log'[i] = row \/ (i \in 1 .. Len(log) /\ log'[i] = log[i])
      BY <1>0, <3>1 DEF TypeOK
    <3>3. QED
      BY <2>2, <3>2 DEF ShieldInv, RowsAreObserved
  <2>4. QED
    BY <1>0, <2>2, <2>3 DEF ShieldInv
<1>3. ASSUME NEW r \in Requests, NEW called \in SUBSET Servers, FinishUnlogged(r, called)
      PROVE  ShieldInv'
  <2>1. turns[r].phase = "open" /\ NoteTurn(r, called) /\ log' = log
    BY <1>3 DEF FinishUnlogged
  <2>2. /\ StampsAreNoted' /\ NotedAreObserved' /\ ShieldOnlyObserved'
        /\ observed \subseteq observed'
    BY <1>0, <2>1, NoteTurnKeepsShieldInv
  <2>3. RowsAreObserved'
    BY <2>1, <2>2 DEF ShieldInv, RowsAreObserved
  <2>4. QED
    BY <1>0, <2>2, <2>3 DEF ShieldInv
<1>4. CASE Crash
  <2>1. \A q \in Requests : /\ turns'[q].shield = turns[q].shield
                            /\ turns'[q].ws = turns[q].ws
                            /\ turns'[q].ts = turns[q].ts
    BY <1>0, <1>4, OpenTurnType DEF Crash, OpenTurns
  <2>2. ShieldOnlyObserved'
    BY <1>4, <2>1 DEF Crash, ShieldInv, ShieldOnlyObserved
  <2>3. QED
    BY <1>0, <1>4, <2>2 DEF Crash, ColdRegistry, ShieldInv, StampsAreNoted,
                            NotedAreObserved, RowsAreObserved
<1>5. ASSUME NEW k \in 0 .. Len(log), Restart(k)
      PROVE  ShieldInv'
  <2>1. WarmCalls(k) \in SUBSET Call /\ WarmCalls(k) \subseteq observed
    BY <1>0, WarmCallsFacts DEF ShieldInv
  <2>2. StampsAreNoted'
    BY <1>5, <2>1, NewestStampFacts DEF Restart, WarmRegistry, StampsAreNoted
  <2>3. QED
    BY <1>0, <1>5, <2>1, <2>2 DEF Restart, ShieldInv, NotedAreObserved,
                                  RowsAreObserved, ShieldOnlyObserved
<1>6. CASE Tick
  BY <1>0, <1>6 DEF Tick, ShieldInv, StampsAreNoted, NotedAreObserved,
                    RowsAreObserved, ShieldOnlyObserved
<1>7. CASE StepBack
  BY <1>0, <1>7 DEF StepBack, ShieldInv, StampsAreNoted, NotedAreObserved,
                    RowsAreObserved, ShieldOnlyObserved
<1>8. CASE UNCHANGED vars
  BY <1>0, <1>8 DEF vars, ShieldInv, StampsAreNoted, NotedAreObserved,
                    RowsAreObserved, ShieldOnlyObserved
<1>9. QED
  BY <1>1, <1>2, <1>3, <1>4, <1>5, <1>6, <1>7, <1>8 DEF Next

(* A shield never holds a server that was not called in its workspace       *)
(* within the TTL: through crashes, torn lines and clock changes.           *)
THEOREM ShieldSound == Spec => []ShieldOnlyObserved
<1>1. ShieldInv => ShieldOnlyObserved
  BY DEF ShieldInv
<1>2. QED
  BY <1>1, ShieldInvInit, ShieldInvNext, PTL DEF Spec

--------------------------------------------------------------------------------
LEMMA KeepsNewestNext ==
  ASSUME ~ClockMayStepBack
  PROVE  TypeOK /\ RegistryKeepsNewest /\ [Next]_vars => RegistryKeepsNewest'
<1> SUFFICES ASSUME TypeOK, RegistryKeepsNewest, [Next]_vars, up',
                    NEW c \in noted', clock' - c.ts <= TTL
             PROVE  registry'[c.ws][c.srv] >= c.ts
  BY DEF RegistryKeepsNewest
<1>0. TypeOK'
  BY TypeNext
<1>1. c \in Call
  BY <1>0 DEF TypeOK
<1>2. /\ c.ws \in Workspaces /\ c.srv \in Servers /\ c.ts \in Int
      /\ clock \in Int /\ TTL \in Int
      /\ registry[c.ws][c.srv] \in Int /\ registry'[c.ws][c.srv] \in Int
  BY <1>0, <1>1, ShieldAssumption DEF Call, Stamp, TypeOK, Never
<1>3. ASSUME NEW r \in Requests, NEW w \in AnyWorkspace, Arrive(r, w)
      PROVE  registry'[c.ws][c.srv] >= c.ts
  <2>1. c \in noted /\ up /\ clock' = clock
    BY <1>3 DEF Arrive
  <2>2. registry[c.ws][c.srv] >= c.ts
    BY <2>1 DEF RegistryKeepsNewest
  <2>3. clock - registry[c.ws][c.srv] <= TTL
    BY <1>2, <2>1, <2>2
  <2>4. registry'[c.ws][c.srv] = registry[c.ws][c.srv]
    <3>1. ~(clock - registry[c.ws][c.srv] > TTL)
      BY <1>2, <2>3
    <3>2. \/ registry'[c.ws][c.srv] = registry[c.ws][c.srv]
          \/ clock - registry[c.ws][c.srv] > TTL
      BY <1>2, <1>3, ArriveOthers
    <3>3. QED
      BY <3>1, <3>2
  <2>5. QED
    BY <2>2, <2>4
<1>4. ASSUME NEW r \in Requests, NEW called \in SUBSET Servers,
             turns[r].phase = "open", NoteTurn(r, called), clock' = clock, up
      PROVE  registry'[c.ws][c.srv] >= c.ts
  <2> DEFINE t == turns[r]
  <2>1. t.ts \in Int
    BY <1>4, OpenTurnType DEF Stamp
  <2>2. registry'[c.ws][c.srv] >= registry[c.ws][c.srv]
    BY <1>2, <1>4, <2>1 DEF NoteTurn, NoteCalls, TypeOK
  <2>3. CASE c \in noted
    <3>1. registry[c.ws][c.srv] >= c.ts
      BY <1>4, <2>3 DEF RegistryKeepsNewest
    <3>2. QED
      BY <1>2, <2>2, <3>1
  <2>4. CASE c \notin noted
    <3>1. c \in CallsOf(t.ws, called, t.ts)
      BY <1>4, <2>4 DEF NoteTurn
    <3>2. t.ws # NoWorkspace /\ c.ws = t.ws /\ c.srv \in called /\ c.ts = t.ts
      BY <3>1 DEF CallsOf
    <3>3. registry' = NoteCalls(t.ws, called, t.ts)
      BY <1>4, <3>2 DEF NoteTurn
    <3>4. registry'[c.ws][c.srv] =
            IF t.ts > registry[c.ws][c.srv] THEN t.ts ELSE registry[c.ws][c.srv]
      BY <1>2, <3>2, <3>3 DEF NoteCalls, TypeOK
    <3>5. QED
      BY <1>2, <2>1, <3>2, <3>4
  <2>5. QED
    BY <2>3, <2>4
<1>5. ASSUME NEW r \in Requests, NEW called \in SUBSET Servers, Finish(r, called)
      PROVE  registry'[c.ws][c.srv] >= c.ts
  BY <1>4, <1>5 DEF Finish
<1>6. ASSUME NEW r \in Requests, NEW called \in SUBSET Servers, FinishUnlogged(r, called)
      PROVE  registry'[c.ws][c.srv] >= c.ts
  BY <1>4, <1>6 DEF FinishUnlogged
<1>7. ASSUME NEW k \in 0 .. Len(log), Restart(k)
      PROVE  registry'[c.ws][c.srv] >= c.ts
  <2>1. noted' = WarmCalls(k) /\ WarmCalls(k) \in SUBSET Call
    BY <1>7, WarmCallsFacts DEF Restart
  <2>2. registry'[c.ws][c.srv] = NewestStamp(WarmCalls(k), c.ws, c.srv)
    BY <1>2, <1>7 DEF Restart, WarmRegistry
  <2>3. c.ts <= NewestStamp(WarmCalls(k), c.ws, c.srv)
    BY <1>2, <2>1, NewestStampFacts
  <2>4. QED
    BY <1>2, <2>2, <2>3
<1>8. CASE Tick
  <2>1. c \in noted /\ up /\ clock - c.ts <= TTL /\ registry' = registry
    BY <1>2, <1>8 DEF Tick
  <2>2. QED
    BY <2>1 DEF RegistryKeepsNewest
<1>9. CASE StepBack
  BY <1>9 DEF StepBack
<1>10. CASE Crash
  BY <1>10 DEF Crash
<1>11. CASE UNCHANGED vars
  BY <1>11 DEF vars, RegistryKeepsNewest
<1>12. QED
  BY <1>3, <1>5, <1>6, <1>7, <1>8, <1>9, <1>10, <1>11 DEF Next

(* While the clock only advances, a call the process noted protects its     *)
(* server for a whole TTL, in whatever order overlapping turns end.         *)
THEOREM NewestKept ==
  ASSUME ~ClockMayStepBack
  PROVE  Spec => []RegistryKeepsNewest
<1>1. Init => TypeOK /\ RegistryKeepsNewest
  <2>1. Init => RegistryKeepsNewest
    BY DEF Init, RegistryKeepsNewest
  <2>2. QED
    BY <2>1, TypeInit
<1>2. TypeOK /\ RegistryKeepsNewest /\ [Next]_vars => (TypeOK /\ RegistryKeepsNewest)'
  BY KeepsNewestNext, TypeNext
<1>3. QED
  BY <1>1, <1>2, PTL DEF Spec

--------------------------------------------------------------------------------
(* A row appended to the log leaves the rows before it, and so their        *)
(* replay, as they were.                                                    *)
LEMMA ReplayInvNext ==
  ASSUME ~MayFail
  PROVE  ReplayInv /\ [Next]_vars => ReplayInv'
<1> SUFFICES ASSUME ReplayInv, [Next]_vars
             PROVE  ReplayInv'
  OBVIOUS
<1>0. ShieldInv /\ ShieldInv' /\ TypeOK /\ TypeOK'
  BY ShieldInvNext DEF ReplayInv, ShieldInv
<1>1. ASSUME NEW r \in Requests, NEW w \in AnyWorkspace, Arrive(r, w)
      PROVE  ReplayInv'
  <2>1. OpenShieldLogged'
    <3> SUFFICES ASSUME NEW q \in OpenTurns', NEW s \in turns'[q].shield
                 PROVE  /\ turns'[q].ws # NoWorkspace
                        /\ \E j \in 1 .. Len(log) :
                             /\ log[j].ws = turns'[q].ws
                             /\ s \in log[j].called
                             /\ turns'[q].ts - log[j].ts <= TTL
      BY <1>1, <1>0, ArriveOthers DEF OpenShieldLogged
    <3>1. CASE q = r
      <4>1. /\ w \in Workspaces /\ s \in Servers /\ registry[w][s] # Never
            /\ clock - registry[w][s] <= TTL
        BY <1>0, <1>1, <3>1, ArrivalShield
      <4>2. RowFor([ws |-> w, srv |-> s, ts |-> registry[w][s]])
        BY <1>0, <4>1 DEF ShieldInv, StampsAreNoted, ReplayInv
      <4>3. QED
        BY <1>0, <1>1, <3>1, <4>1, <4>2, ArriveOthers, ShieldAssumption DEF RowFor
    <3>2. CASE q # r
      <4>1. q \in OpenTurns /\ turns'[q] = turns[q]
        BY <1>0, <1>1, <3>2, ArriveOthers DEF OpenTurns
      <4>2. QED
        BY <4>1 DEF ReplayInv, OpenShieldLogged
    <3>3. QED
      BY <3>1, <3>2
  <2>2. QED
    BY <1>0, <1>1, <2>1, ArriveOthers DEF ReplayInv, RowFor, ReplayCoversLive, Replay
<1>2. ASSUME NEW r \in Requests, NEW called \in SUBSET Servers, Finish(r, called)
      PROVE  ReplayInv'
  <2> DEFINE t == turns[r]
             row == [ws |-> t.ws, ts |-> t.ts, shield |-> t.shield, called |-> called]
  <2>1. turns[r].phase = "open" /\ NoteTurn(r, called)
    BY <1>2 DEF Finish
  <2>2. log' = Append(log, row) /\ tornTail' = FALSE
    BY <1>2 DEF Finish, AppendRow, ReplayInv
  <2>3. /\ Len(log') = Len(log) + 1
        /\ log'[Len(log) + 1] = row
        /\ \A i \in 1 .. Len(log) : log'[i] = log[i]
        /\ Len(log) \in Nat
    BY <1>0, <2>2 DEF TypeOK
  <2>4. \A q \in OpenTurns' : q \in OpenTurns /\ turns'[q] = turns[q]
    BY <1>0, <2>1 DEF NoteTurn, OpenTurns, TypeOK
  <2>5. OpenShieldLogged'
    <3> SUFFICES ASSUME NEW q \in OpenTurns', NEW s \in turns'[q].shield
                 PROVE  /\ turns'[q].ws # NoWorkspace
                        /\ \E j \in 1 .. Len(log') :
                             /\ log'[j].ws = turns'[q].ws
                             /\ s \in log'[j].called
                             /\ turns'[q].ts - log'[j].ts <= TTL
      BY DEF OpenShieldLogged
    <3>1. q \in OpenTurns /\ turns'[q] = turns[q]
      BY <2>4
    <3>2. PICK j \in 1 .. Len(log) : /\ log[j].ws = turns[q].ws
                                     /\ s \in log[j].called
                                     /\ turns[q].ts - log[j].ts <= TTL
      BY <3>1 DEF ReplayInv, OpenShieldLogged
    <3>3. turns[q].ws # NoWorkspace
      BY <3>1 DEF ReplayInv, OpenShieldLogged
    <3>4. j \in 1 .. Len(log') /\ log'[j] = log[j]
      BY <2>3
    <3>5. QED
      BY <3>1, <3>2, <3>3, <3>4
  <2>6. \A c \in noted' : RowFor(c)'
    <3> SUFFICES ASSUME NEW c \in noted'
                 PROVE  \E i \in 1 .. Len(log') :
                          log'[i].ws = c.ws /\ c.srv \in log'[i].called /\ log'[i].ts = c.ts
      BY DEF RowFor
    <3>1. CASE c \in noted
      <4>1. PICK i \in 1 .. Len(log) :
              log[i].ws = c.ws /\ c.srv \in log[i].called /\ log[i].ts = c.ts
        BY <3>1 DEF ReplayInv, RowFor
      <4>2. i \in 1 .. Len(log') /\ log'[i] = log[i]
        BY <2>3
      <4>3. QED
        BY <4>1, <4>2
    <3>2. CASE c \notin noted
      <4>1. c \in CallsOf(t.ws, called, t.ts)
        BY <2>1, <3>2 DEF NoteTurn
      <4>2. c.ws = t.ws /\ c.srv \in called /\ c.ts = t.ts
        BY <4>1 DEF CallsOf
      <4>3. Len(log) + 1 \in 1 .. Len(log')
        BY <2>3
      <4>4. QED
        BY <2>3, <4>2, <4>3
    <3>3. QED
      BY <3>1, <3>2
  <2>7. ReplayCoversLive'
    <3> SUFFICES ASSUME NEW i \in 1 .. Len(log'), NEW s \in log'[i].shield
                 PROVE  /\ s \in Servers
                        /\ log'[i].ws # NoWorkspace
                        /\ \E j \in 1 .. (i - 1) : /\ log'[j].ws = log'[i].ws
                                                  /\ s \in log'[j].called
                                                  /\ log'[i].ts - log'[j].ts <= TTL
      BY DEF ReplayCoversLive, Replay
    <3>1. CASE i \in 1 .. Len(log)
      <4>1. log'[i] = log[i]
        BY <2>3, <3>1
      <4>2. s \in Replay(i)
        BY <3>1, <4>1 DEF ReplayInv, ReplayCoversLive
      <4>3. \A j \in 1 .. (i - 1) : log'[j] = log[j]
        BY <2>3, <3>1
      <4>4. QED
        BY <4>1, <4>2, <4>3 DEF Replay
    <3>2. CASE i = Len(log) + 1
      <4>1. log'[i] = row
        BY <2>3, <3>2
      <4>2. s \in t.shield /\ r \in OpenTurns
        BY <2>1, <4>1 DEF OpenTurns
      <4>3. PICK j \in 1 .. Len(log) : /\ log[j].ws = t.ws
                                       /\ s \in log[j].called
                                       /\ t.ts - log[j].ts <= TTL
        BY <4>2 DEF ReplayInv, OpenShieldLogged
      <4>4. t.ws # NoWorkspace
        BY <4>2 DEF ReplayInv, OpenShieldLogged
      <4>5. s \in Servers
        BY <1>0, <2>1, <4>2, OpenTurnType
      <4>6. j \in 1 .. (i - 1) /\ log'[j] = log[j]
        BY <2>3, <3>2
      <4>7. QED
        BY <4>1, <4>3, <4>4, <4>5, <4>6
    <3>3. QED
      BY <2>3, <3>1, <3>2
  <2>8. QED
    BY <1>0, <2>2, <2>5, <2>6, <2>7 DEF ReplayInv
<1>3. CASE Crash
  <2>1. OpenTurns' = {}
    BY <1>0, <1>3, OpenTurnType DEF Crash, OpenTurns
  <2>2. log' = log /\ tornTail' = FALSE /\ noted' = {}
    BY <1>3 DEF Crash, ReplayInv
  <2>3. QED
    BY <1>0, <2>1, <2>2 DEF ReplayInv, OpenShieldLogged, ReplayCoversLive, Replay
<1>4. ASSUME NEW k \in 0 .. Len(log), Restart(k)
      PROVE  ReplayInv'
  <2>1. \A c \in WarmCalls(k) : RowFor(c)
    BY <1>0, WarmCallsFacts
  <2>2. \A c \in noted' : RowFor(c)'
    BY <1>4, <2>1 DEF Restart, RowFor
  <2>3. log' = log /\ tornTail' = tornTail /\ turns' = turns
    BY <1>4 DEF Restart
  <2>4. QED
    BY <1>0, <2>2, <2>3 DEF ReplayInv, OpenShieldLogged, OpenTurns, ReplayCoversLive, Replay
<1>5. ASSUME UNCHANGED <<log, tornTail, turns, noted>>
      PROVE  ReplayInv'
  BY <1>0, <1>5 DEF ReplayInv, OpenShieldLogged, OpenTurns, RowFor, ReplayCoversLive, Replay
<1>6. ASSUME NEW r \in Requests, NEW called \in SUBSET Servers, FinishUnlogged(r, called)
      PROVE  ReplayInv'
  BY <1>6 DEF FinishUnlogged
<1>7. QED
  BY <1>1, <1>2, <1>3, <1>4, <1>5, <1>6 DEF Next, Tick, StepBack, vars

(* While no log write fails, the offline replay of the log shields every    *)
(* server the live turn shielded.                                           *)
THEOREM ReplayNeverShort ==
  ASSUME ~MayFail
  PROVE  Spec => []ReplayCoversLive
<1>1. Init => ReplayInv
  <2>1. Init => OpenShieldLogged /\ ReplayCoversLive
    BY DEF Init, OpenShieldLogged, ReplayCoversLive, OpenTurns, NewTurn
  <2>2. QED
    BY <2>1, ShieldInvInit DEF Init, ReplayInv
<1>2. ReplayInv => ReplayCoversLive
  BY DEF ReplayInv
<1>3. QED
  BY <1>1, <1>2, ReplayInvNext, PTL DEF Spec

--------------------------------------------------------------------------------
(* A restart recovers what the log holds: every call observed has its row,  *)
(* no row is of the future, and in a log in order of arrival the reader     *)
(* meets no expired row before one that is not.                             *)
NothingOfTheFuture ==
  /\ \A i \in 1 .. Len(log) : log[i].ts <= clock
  /\ \A r \in OpenTurns : turns[r].ts <= clock

NotedInOrder ==
  up /\ LogInOrder => \A c \in observed : clock - c.ts <= TTL => c \in noted

RestoreInv ==
  /\ ShieldInv
  /\ tornTail = FALSE
  /\ \A c \in observed : RowFor(c)
  /\ NothingOfTheFuture
  /\ NotedInOrder

LEMMA RowStamps == ASSUME TypeOK, NEW i \in 1 .. Len(log) PROVE log[i].ts \in Int
<1>1. log[i] \in Row
  BY DEF TypeOK
<1>2. log[i].ts \in Stamp
  BY <1>1 DEF Row
<1> QED BY <1>2 DEF Stamp

(* The rows the reader visits are all those within the TTL.                 *)
LEMMA WarmingReadsAll ==
  ASSUME RestoreInv, LogInOrder, WarmEnabled, TTL # 0, NEW c \in observed,
         clock - c.ts <= TTL
  PROVE  c \in WarmCalls(Len(log))
<1> USE DEF RestoreInv, ShieldInv
<1>1. PICK i \in 1 .. Len(log) :
        log[i].ws = c.ws /\ c.srv \in log[i].called /\ log[i].ts = c.ts
  BY DEF RowFor
<1>2. c \in Call /\ Len(log) \in Nat /\ clock \in Int /\ TTL \in Int
  BY ShieldAssumption DEF TypeOK, Stamp
<1>3. \A j \in 1 .. Len(log) : log[j].ts \in Int
  BY RowStamps
<1>4. \A j \in i .. Len(log) : log[j].ts >= clock - TTL
  <2> SUFFICES ASSUME NEW j \in i .. Len(log) PROVE log[j].ts >= clock - TTL
    OBVIOUS
  <2>1. j \in 1 .. Len(log) /\ (i = j \/ i < j)
    BY <1>2
  <2>2. log[i].ts <= log[j].ts
    BY <1>3, <2>1 DEF LogInOrder
  <2> QED BY <1>1, <1>2, <1>3, <2>1, <2>2
<1>5. i \in Visited(Len(log)) /\ log[i].ts <= clock
  BY <1>2, <1>4 DEF Visited, NothingOfTheFuture
<1>6. c = [ws |-> c.ws, srv |-> c.srv, ts |-> c.ts] /\ c.ws # NoWorkspace
  BY <1>2, ShieldAssumption DEF Call
<1>7. c \in CallsOf(log[i].ws, log[i].called, log[i].ts)
  BY <1>1, <1>6 DEF CallsOf
<1> QED BY <1>5, <1>7 DEF WarmCalls

LEMMA RestoreInvNext ==
  ASSUME ~MayFail, ~ClockMayStepBack, WarmEnabled, TTL # 0
  PROVE  RestoreInv /\ [Next]_vars => RestoreInv'
<1> SUFFICES ASSUME RestoreInv, [Next]_vars PROVE RestoreInv'
  OBVIOUS
<1>0. ShieldInv /\ ShieldInv' /\ TypeOK /\ TypeOK' /\ clock \in Int /\ TTL \in Int
  BY ShieldInvNext, ShieldAssumption DEF RestoreInv, ShieldInv, TypeOK, Stamp
<1>1. ASSUME NEW r \in Requests, NEW w \in AnyWorkspace, Arrive(r, w)
      PROVE  RestoreInv'
  <2>1. UNCHANGED <<clock, up, log, tornTail, noted, observed>>
    BY <1>1 DEF Arrive
  <2>2. turns'[r].ts = clock /\ \A q \in Requests \ {r} : turns'[q] = turns[q]
    BY <1>0, <1>1 DEF Arrive, TypeOK
  <2>3. NothingOfTheFuture'
    BY <1>0, <2>1, <2>2 DEF RestoreInv, NothingOfTheFuture, OpenTurns
  <2> QED BY <1>0, <2>1, <2>3 DEF RestoreInv, NotedInOrder, LogInOrder, RowFor
<1>2. ASSUME NEW r \in Requests, NEW called \in SUBSET Servers, Finish(r, called)
      PROVE  RestoreInv'
  <2> DEFINE t == turns[r]
             row == [ws |-> t.ws, ts |-> t.ts, shield |-> t.shield, called |-> called]
             calls == CallsOf(t.ws, called, t.ts)
  <2>1. t \in [phase : {"open", "done"}, ws : AnyWorkspace, ts : Stamp, shield : SUBSET Servers]
    BY <1>0, <1>2, OpenTurnType DEF Finish
  <2>2. /\ log' = Append(log, row) /\ tornTail' = FALSE
        /\ noted' = noted \cup calls /\ observed' = observed \cup calls
        /\ turns' = [turns EXCEPT ![r].phase = "done"] /\ UNCHANGED <<clock, up>> /\ up
    BY <1>2 DEF Finish, AppendRow, NoteTurn, RestoreInv
  <2>3. /\ Len(log') = Len(log) + 1 /\ Len(log) \in Nat
        /\ \A j \in 1 .. Len(log) : log'[j] = log[j]
        /\ log'[Len(log) + 1] = row
    BY <1>0, <2>2 DEF TypeOK
  <2>4. \A c \in observed' : RowFor(c)'
    <3> SUFFICES ASSUME NEW c \in observed' PROVE RowFor(c)'
      OBVIOUS
    <3>1. CASE c \in observed
      <4>1. PICK i \in 1 .. Len(log) :
              log[i].ws = c.ws /\ c.srv \in log[i].called /\ log[i].ts = c.ts
        BY <3>1 DEF RestoreInv, RowFor
      <4>2. i \in 1 .. Len(log') /\ log'[i] = log[i]
        BY <2>3
      <4> QED BY <4>1, <4>2 DEF RowFor
    <3>2. CASE c \in calls
      <4>1. c.ws = t.ws /\ c.srv \in called /\ c.ts = t.ts
        BY <3>2 DEF CallsOf
      <4>2. Len(log) + 1 \in 1 .. Len(log')
        BY <2>3
      <4> QED BY <2>3, <4>1, <4>2 DEF RowFor
    <3> QED BY <2>2, <3>1, <3>2
  <2>5. NothingOfTheFuture'
    <3>1. t.ts <= clock
      BY <1>2 DEF Finish, RestoreInv, NothingOfTheFuture, OpenTurns
    <3>2. \A q \in OpenTurns' : q \in OpenTurns /\ turns'[q] = turns[q]
      BY <1>0, <2>1, <2>2 DEF OpenTurns, TypeOK
    <3>3. \A i \in 1 .. Len(log') : i \in 1 .. Len(log) \/ i = Len(log) + 1
      BY <2>3
    <3> QED BY <2>2, <2>3, <3>1, <3>2, <3>3 DEF RestoreInv, NothingOfTheFuture
  <2>6. NotedInOrder'
    <3>1. LogInOrder' => LogInOrder
      <4> SUFFICES ASSUME LogInOrder', NEW i \in 1 .. Len(log), NEW j \in 1 .. Len(log), i < j
                   PROVE  log[i].ts <= log[j].ts
        BY DEF LogInOrder
      <4>1. i \in 1 .. Len(log') /\ j \in 1 .. Len(log')
        BY <2>3
      <4> QED BY <2>3, <4>1 DEF LogInOrder
    <3> QED BY <2>2, <3>1 DEF RestoreInv, NotedInOrder
  <2> QED BY <1>0, <2>2, <2>4, <2>5, <2>6 DEF RestoreInv
<1>3. CASE Crash
  <2>1. OpenTurns' = {}
    BY <1>0, <1>3, OpenTurnType DEF Crash, OpenTurns
  <2>2. UNCHANGED <<clock, log, tornTail, observed>> /\ ~up'
    BY <1>3 DEF Crash
  <2> QED BY <1>0, <2>1, <2>2 DEF RestoreInv, NothingOfTheFuture, NotedInOrder, RowFor
<1>4. ASSUME NEW k \in 0 .. Len(log), Restart(k)
      PROVE  RestoreInv'
  <2>1. /\ k = Len(log) /\ noted' = WarmCalls(Len(log))
        /\ UNCHANGED <<clock, turns, log, tornTail, observed>>
    BY <1>4 DEF Restart
  <2>2. NotedInOrder'
    BY <2>1, WarmingReadsAll DEF NotedInOrder, LogInOrder
  <2> QED BY <1>0, <2>1, <2>2 DEF RestoreInv, NothingOfTheFuture, OpenTurns, RowFor
<1>5. CASE Tick
  <2>1. /\ UNCHANGED <<up, turns, log, tornTail, noted, observed>> /\ clock' = clock + 1
    BY <1>5 DEF Tick
  <2>2. NothingOfTheFuture'
    <3>1. \A i \in 1 .. Len(log) : log[i].ts \in Int
      BY <1>0, RowStamps
    <3>2. \A r \in OpenTurns : turns[r].ts \in Int
      BY <1>0, OpenTurnType DEF OpenTurns, Stamp
    <3> QED BY <1>0, <2>1, <3>1, <3>2 DEF RestoreInv, NothingOfTheFuture, OpenTurns
  <2>3. NotedInOrder'
    <3>1. \A c \in observed : c.ts \in Int
      BY <1>0 DEF TypeOK, Call, Stamp
    <3>2. \A c \in observed : clock' - c.ts <= TTL => clock - c.ts <= TTL
      BY <1>0, <2>1, <3>1
    <3> QED BY <2>1, <3>2 DEF RestoreInv, NotedInOrder, LogInOrder
  <2> QED BY <1>0, <2>1, <2>2, <2>3 DEF RestoreInv, RowFor
<1>6. CASE UNCHANGED vars
  BY <1>0, <1>6 DEF vars, RestoreInv, NothingOfTheFuture, OpenTurns, NotedInOrder, LogInOrder,
                    RowFor
<1>7. QED
  BY <1>1, <1>2, <1>3, <1>4, <1>5, <1>6 DEF Next, FinishUnlogged, StepBack

(* With warming on, a log that can be written and a clock that only         *)
(* advances, a restart loses no call still within its TTL as long as turns  *)
(* were logged in the order in which they arrived.                          *)
THEOREM OrderRestores ==
  ASSUME ~MayFail, ~ClockMayStepBack, WarmEnabled, TTL # 0
  PROVE  Spec => []OrderedLogRestores
<1>1. Init => RestoreInv
  <2>1. Init => NothingOfTheFuture
    BY DEF Init, NothingOfTheFuture, OpenTurns, NewTurn
  <2> QED BY <2>1, ShieldInvInit DEF Init, RestoreInv, NotedInOrder
<1>2. RestoreInv /\ RegistryKeepsNewest => OrderedLogRestores
  BY DEF RestoreInv, NotedInOrder, RegistryKeepsNewest, OrderedLogRestores, Recovered
<1>3. Spec => []RestoreInv
  BY <1>1, RestoreInvNext, PTL DEF Spec
<1>4. QED
  BY <1>2, <1>3, NewestKept, PTL

--------------------------------------------------------------------------------
(* The proxy implements ShieldContract: an arrival is a Decide, the end of  *)
(* a turn an Observe, everything else a stutter.                            *)
THEOREM ShieldImplementsContract == Spec => KeepsContract
<1>1. Init => Contract!Init
  BY DEF Init, Decisions, NewTurn, Contract!Init, Contract!Undecided, Never
<1>2. ShieldInv /\ [Next]_vars => [Contract!Next]_(Contract!vars)
  <2> SUFFICES ASSUME ShieldInv, [Next]_vars
               PROVE  Contract!Next \/ UNCHANGED Contract!vars
    OBVIOUS
  <2>0. TypeOK /\ TypeOK'
    BY TypeNext DEF ShieldInv
  <2>1. ASSUME NEW r \in Requests, NEW w \in AnyWorkspace, Arrive(r, w)
        PROVE  Contract!Next
    <3> DEFINE shield == turns'[r].shield
    <3>1. shield \in SUBSET Contract!RecentlyCalled(w, clock)
      <4> SUFFICES ASSUME NEW s \in shield
                   PROVE  s \in Contract!RecentlyCalled(w, clock)
        OBVIOUS
      <4>1. /\ w \in Workspaces /\ s \in Servers /\ registry[w][s] # Never
            /\ clock - registry[w][s] <= TTL
        BY <2>0, <2>1, ArrivalShield
      <4>2. [ws |-> w, srv |-> s, ts |-> registry[w][s]] \in observed
        BY <4>1 DEF ShieldInv, StampsAreNoted, NotedAreObserved
      <4>3. QED
        BY <4>1, <4>2 DEF Contract!RecentlyCalled
    <3>2. turns[r] = NewTurn
      BY <2>0, <2>1 DEF Arrive, TypeOK, Turn
    <3>3. Decisions[r] = Contract!Undecided
      BY <3>2 DEF Decisions, NewTurn, Contract!Undecided, Never
    <3>4. Decisions' = [Decisions EXCEPT ![r] = [ws |-> w, ts |-> clock, shield |-> shield]]
      BY <2>0, <2>1, ArriveOthers DEF Decisions
    <3>5. clock \in Stamp /\ w \in Workspaces \cup {NoWorkspace} /\ observed' = observed
      BY <2>0, <2>1 DEF TypeOK, AnyWorkspace, Arrive
    <3>6. Contract!Decide(r)
      BY <3>1, <3>3, <3>4, <3>5 DEF Contract!Decide
    <3>7. QED
      BY <3>6 DEF Contract!Next
  <2>2. ASSUME NEW r \in Requests, NEW called \in SUBSET Servers,
               turns[r].phase = "open", NoteTurn(r, called)
        PROVE  Contract!Next \/ UNCHANGED Contract!vars
    <3>1. turns[r] \in [phase : {"open", "done"}, ws : AnyWorkspace,
                        ts : Stamp, shield : SUBSET Servers]
      BY <2>0, <2>2, OpenTurnType
    <3>2. Decisions' = Decisions
      BY <2>0, <2>2, <3>1 DEF NoteTurn, Decisions, TypeOK
    <3>3. CASE turns[r].ws = NoWorkspace
      BY <2>2, <3>2, <3>3 DEF NoteTurn, CallsOf, Contract!vars
    <3>4. CASE turns[r].ws # NoWorkspace
      <4>1. Decisions[r] # Contract!Undecided /\ Decisions[r].ws # NoWorkspace
        BY <3>1, <3>4 DEF Decisions, Contract!Undecided
      <4>2. observed' = observed \cup
              {[ws |-> Decisions[r].ws, srv |-> s, ts |-> Decisions[r].ts] : s \in called}
        BY <2>2, <3>4 DEF NoteTurn, CallsOf, Decisions
      <4>3. Contract!Observe(r)
        BY <3>2, <4>1, <4>2 DEF Contract!Observe
      <4>4. QED
        BY <4>3 DEF Contract!Next
    <3>5. QED
      BY <3>3, <3>4
  <2>3. ASSUME NEW r \in Requests, NEW called \in SUBSET Servers, Finish(r, called)
        PROVE  Contract!Next \/ UNCHANGED Contract!vars
    BY <2>2, <2>3 DEF Finish
  <2>4. ASSUME NEW r \in Requests, NEW called \in SUBSET Servers, FinishUnlogged(r, called)
        PROVE  Contract!Next \/ UNCHANGED Contract!vars
    BY <2>2, <2>4 DEF FinishUnlogged
  <2>5. CASE Crash
    <3>1. Decisions' = Decisions
      BY <2>0, <2>5, OpenTurnType DEF Crash, OpenTurns, Decisions
    <3>2. QED
      BY <2>5, <3>1 DEF Crash, Contract!vars
  <2>6. ASSUME UNCHANGED <<turns, observed>>
        PROVE  UNCHANGED Contract!vars
    BY <2>6 DEF Decisions, Contract!vars
  <2>7. QED
    BY <2>1, <2>3, <2>4, <2>5, <2>6 DEF Next, Restart, Tick, StepBack, vars
<1>3. QED
  BY <1>1, <1>2, ShieldInvInit, ShieldInvNext, PTL DEF Spec, KeepsContract, Contract!Spec
================================================================================
