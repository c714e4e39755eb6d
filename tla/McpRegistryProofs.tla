--------------------------- MODULE McpRegistryProofs ---------------------------
(***************************************************************************)
(* Theorems about the monitors of the MCP registry: the health monitor, for*)
(* any servers, tasks, calls, endpoints and cache sizes, and the batch     *)
(* monitor, for any servers, batch sizes and numbers of checks at once.    *)
(***************************************************************************)
EXTENDS RegistryMonitors, FiniteSetTheorems, SequenceTheorems, TLAPS

--------------------------------------------------------------------------------
(* The cache: a sequence with one entry for each server.                    *)
Caches == {c \in Seq(Entry) : \A i, j \in DOMAIN c : c[i].server = c[j].server => i = j}

LEMMA RemoveAtFacts ==
  ASSUME NEW S, NEW c \in Seq(S), NEW i \in 1 .. Len(c)
  PROVE  /\ RemoveAt(c, i) \in Seq(S)
         /\ Len(RemoveAt(c, i)) = Len(c) - 1
         /\ \A j \in 1 .. (Len(c) - 1) :
              RemoveAt(c, i)[j] = IF j < i THEN c[j] ELSE c[j + 1]
<1> DEFINE front == SubSeq(c, 1, i - 1)
           back == SubSeq(c, i + 1, Len(c))
<1>1. front \in Seq(S) /\ Len(front) = i - 1 /\ \A j \in 1 .. (i - 1) : front[j] = c[j]
  OBVIOUS
<1>2. /\ back \in Seq(S) /\ Len(back) = Len(c) - i
      /\ \A j \in 1 .. (Len(c) - i) : back[j] = c[j + i]
  OBVIOUS
<1>3. RemoveAt(c, i) = front \o back
  BY DEF RemoveAt
<1> HIDE DEF front, back
<1>4. /\ front \o back \in Seq(S) /\ Len(front \o back) = Len(front) + Len(back)
      /\ \A j \in 1 .. (Len(front) + Len(back)) :
           (front \o back)[j] = IF j <= Len(front) THEN front[j] ELSE back[j - Len(front)]
  BY <1>1, <1>2, ConcatProperties
<1>5. Len(c) \in Nat /\ i \in Nat /\ Len(front) + Len(back) = Len(c) - 1
  BY <1>1, <1>2
<1>6. ASSUME NEW j \in 1 .. (Len(c) - 1)
      PROVE  (front \o back)[j] = IF j < i THEN c[j] ELSE c[j + 1]
  <2>1. CASE j < i
    <3>1. j \in 1 .. (i - 1) /\ j <= Len(front)
      BY <1>1, <1>5, <2>1
    <3> QED BY <1>1, <1>4, <1>5, <2>1, <3>1
  <2>2. CASE ~(j < i)
    <3>1. j - (i - 1) \in 1 .. (Len(c) - i) /\ ~(j <= Len(front)) /\ (j - (i - 1)) + i = j + 1
      BY <1>1, <1>5, <2>2
    <3>2. (front \o back)[j] = back[j - (i - 1)]
      BY <1>1, <1>4, <1>5, <3>1
    <3> QED BY <1>2, <2>2, <3>1, <3>2
  <2> QED BY <2>1, <2>2
<1> QED BY <1>3, <1>4, <1>5, <1>6

LEMMA OthersFacts ==
  ASSUME NEW c \in Caches, NEW s
  PROVE  /\ Others(c, s) \in Caches
         /\ Len(Others(c, s)) = IF Holds(c, s) THEN Len(c) - 1 ELSE Len(c)
         /\ \A i \in DOMAIN Others(c, s) : Others(c, s)[i].server # s
         /\ Holds(c, s) => Place(c, s) \in DOMAIN c /\ c[Place(c, s)].server = s
<1>1. c \in Seq(Entry)
  BY DEF Caches
<1>2. CASE ~Holds(c, s)
  BY <1>1, <1>2 DEF Others, Holds
<1>3. CASE Holds(c, s)
  <2> DEFINE k == Place(c, s)
             o == RemoveAt(c, k)
  <2>1. k \in 1 .. Len(c) /\ c[k].server = s
    BY <1>1, <1>3 DEF Holds, Place
  <2>2. /\ o \in Seq(Entry) /\ Len(o) = Len(c) - 1
        /\ \A j \in 1 .. (Len(c) - 1) : o[j] = IF j < k THEN c[j] ELSE c[j + 1]
    BY <1>1, <2>1, RemoveAtFacts
  <2>3. Others(c, s) = o
    BY <1>3 DEF Others
  <2> HIDE DEF k, o
  <2>4. \A i, j \in DOMAIN c : c[i].server = c[j].server => i = j
    BY DEF Caches
  <2>5. ASSUME NEW i \in DOMAIN o PROVE o[i].server # s
    <3>1. i \in 1 .. (Len(c) - 1)
      BY <2>2
    <3>2. CASE i < k
      BY <1>1, <2>1, <2>2, <2>4, <3>1, <3>2
    <3>3. CASE ~(i < k)
      <4>1. i + 1 \in DOMAIN c /\ k \in DOMAIN c /\ i + 1 # k
        BY <1>1, <2>1, <3>1, <3>3
      <4>2. c[i + 1].server # c[k].server
        BY <2>4, <4>1
      <4> QED BY <2>1, <2>2, <3>1, <3>3, <4>2
    <3> QED BY <3>2, <3>3
  <2>6. ASSUME NEW i \in DOMAIN o, NEW j \in DOMAIN o, o[i].server = o[j].server PROVE i = j
    <3>1. i \in 1 .. (Len(c) - 1) /\ j \in 1 .. (Len(c) - 1)
      BY <2>2
    <3> DEFINE at(x) == IF x < k THEN x ELSE x + 1
    <3>2. /\ at(i) \in DOMAIN c /\ at(j) \in DOMAIN c
          /\ o[i] = c[at(i)] /\ o[j] = c[at(j)]
      <4>1. \A x \in 1 .. (Len(c) - 1) : at(x) \in DOMAIN c /\ o[x] = c[at(x)]
        <5> SUFFICES ASSUME NEW x \in 1 .. (Len(c) - 1)
                     PROVE  at(x) \in DOMAIN c /\ o[x] = c[at(x)]
          OBVIOUS
        <5>1. Len(c) \in Nat /\ DOMAIN c = 1 .. Len(c)
          BY <1>1
        <5>2. at(x) \in DOMAIN c
          BY <2>1, <5>1
        <5> QED BY <2>2, <5>2
      <4> QED BY <3>1, <4>1
    <3> HIDE DEF at
    <3>3. at(i) = at(j)
      BY <2>4, <2>6, <3>2
    <3> QED BY <2>1, <3>1, <3>3 DEF at
  <2> QED BY <1>3, <2>1, <2>2, <2>3, <2>5, <2>6 DEF Caches, k
<1> QED BY <1>2, <1>3

(* A server without an entry gets one at the end.                           *)
LEMMA AppendFacts ==
  ASSUME NEW c \in Caches, NEW e \in Entry, \A i \in DOMAIN c : c[i].server # e.server
  PROVE  Append(c, e) \in Caches /\ Len(Append(c, e)) = Len(c) + 1
<1>1. c \in Seq(Entry) /\ \A i, j \in DOMAIN c : c[i].server = c[j].server => i = j
  BY DEF Caches
<1>2. /\ Append(c, e) \in Seq(Entry) /\ Len(Append(c, e)) = Len(c) + 1
      /\ \A i \in 1 .. Len(c) : Append(c, e)[i] = c[i]
      /\ Append(c, e)[Len(c) + 1] = e
  BY <1>1
<1>3. ASSUME NEW i \in DOMAIN Append(c, e), NEW j \in DOMAIN Append(c, e),
             Append(c, e)[i].server = Append(c, e)[j].server
      PROVE  i = j
  <2>1. (i \in DOMAIN c \/ i = Len(c) + 1) /\ (j \in DOMAIN c \/ j = Len(c) + 1)
    BY <1>1, <1>2
  <2> QED BY <1>1, <1>2, <1>3, <2>1
<1> QED BY <1>2, <1>3 DEF Caches

LEMMA TailFacts ==
  ASSUME NEW c \in Caches, c # <<>>
  PROVE  Tail(c) \in Caches /\ Len(Tail(c)) = Len(c) - 1
<1>1. c \in Seq(Entry) /\ \A i, j \in DOMAIN c : c[i].server = c[j].server => i = j
  BY DEF Caches
<1>2. /\ Tail(c) \in Seq(Entry) /\ Len(Tail(c)) = Len(c) - 1
      /\ \A i \in 1 .. (Len(c) - 1) : Tail(c)[i] = c[i + 1] /\ i + 1 \in DOMAIN c
  BY <1>1
<1>3. ASSUME NEW i \in DOMAIN Tail(c), NEW j \in DOMAIN Tail(c),
             Tail(c)[i].server = Tail(c)[j].server
      PROVE  i = j
  <2>1. i \in 1 .. (Len(c) - 1) /\ j \in 1 .. (Len(c) - 1)
    BY <1>2
  <2>2. i + 1 = j + 1
    BY <1>1, <1>2, <1>3, <2>1
  <2> QED BY <2>1, <2>2
<1> QED BY <1>2, <1>3 DEF Caches

(* What is stored or looked up leaves a cache within its limit.             *)
LEMMA PutFits ==
  ASSUME NEW c \in Caches, Len(c) <= MaxCache, NEW s \in Servers
  PROVE  Put(c, s) \in Caches /\ Len(Put(c, s)) <= MaxCache
<1> DEFINE e == [server |-> s, fresh |-> TRUE]
           put == Append(Others(c, s), e)
<1>1. e \in Entry /\ e.server = s
  BY DEF Entry
<1> HIDE DEF e
<1>2. /\ Others(c, s) \in Caches /\ Len(Others(c, s)) \in Nat /\ Len(Others(c, s)) <= Len(c)
      /\ \A i \in DOMAIN Others(c, s) : Others(c, s)[i].server # s
  BY OthersFacts DEF Caches
<1>3. put \in Caches /\ Len(put) = Len(Others(c, s)) + 1
  BY <1>1, <1>2, AppendFacts
<1>4. put # <<>> /\ Len(put) <= MaxCache + 1
  BY <1>2, <1>3, HealthAssumption DEF Caches
<1>5. Put(c, s) = IF Len(put) > MaxCache THEN Tail(put) ELSE put
  BY DEF Put, e
<1> HIDE DEF put
<1>6. Len(put) \in Nat /\ MaxCache \in Nat
  BY <1>2, <1>3, HealthAssumption
<1>7. CASE Len(put) > MaxCache
  <2>1. Tail(put) \in Caches /\ Len(Tail(put)) = Len(put) - 1
    BY <1>3, <1>4, TailFacts
  <2> QED BY <1>4, <1>5, <1>6, <1>7, <2>1
<1>8. CASE ~(Len(put) > MaxCache)
  BY <1>3, <1>5, <1>6, <1>8
<1> QED BY <1>7, <1>8

LEMMA TouchFits ==
  ASSUME NEW c \in Caches, Len(c) <= MaxCache, NEW s \in Servers, NEW d \in Touched(c, s)
  PROVE  d \in Caches /\ Len(d) <= MaxCache
<1>1. /\ Others(c, s) \in Caches /\ Len(Others(c, s)) \in Nat /\ Len(c) \in Nat
      /\ Len(Others(c, s)) = IF Holds(c, s) THEN Len(c) - 1 ELSE Len(c)
      /\ \A i \in DOMAIN Others(c, s) : Others(c, s)[i].server # s
      /\ Holds(c, s) => Place(c, s) \in DOMAIN c /\ c[Place(c, s)].server = s
  BY OthersFacts DEF Caches
<1>2. CASE d = Others(c, s) \/ d = c
  BY <1>1, <1>2, HealthAssumption
<1>3. CASE Holds(c, s) /\ d = Append(Others(c, s), c[Place(c, s)])
  <2>1. c[Place(c, s)] \in Entry
    BY <1>1, <1>3 DEF Caches
  <2> QED BY <1>1, <1>3, <2>1, AppendFacts
<1> QED BY <1>2, <1>3 DEF Touched

--------------------------------------------------------------------------------
(* No two entries of monitoring_tasks hold the same task.                   *)
EntriesApart ==
  \A s, r \in Servers : monitored[s] # NoTask /\ monitored[s] = monitored[r] => s = r

(* The task of an entry made while the monitor runs is at work, unless the  *)
(* monitor was stopped since.                                               *)
EntryIsServed ==
  \A s \in Servers :
    monitored[s] # NoTask /\ s \notin left =>
      running /\ Live(monitored[s]) /\ ~task[monitored[s]].cancelled

AskedHasEntry == \A s \in asked : monitored[s] # NoTask

(* A task without an entry was cancelled, or survived its cancellation.     *)
WatcherHasEntry ==
  \A t \in Tasks :
    Live(t) /\ ~task[t].cancelled /\ ~task[t].survived => monitored[task[t].server] = t

(* What stop waits for: the tasks of the entries it found; one that came    *)
(* later ends before its first check.                                       *)
AtRest(t) == task[t].at \in {"new", "done"}

StopProgress ==
  /\ running => stop = "no"
  /\ stop = "waiting" => \A s \in Servers :
       monitored[s] # NoTask => monitored[s] \in waitedFor \/ AtRest(monitored[s])
  /\ stop = "returned" => \A s \in Servers : monitored[s] # NoTask => AtRest(monitored[s])

HInv ==
  /\ TypeOK
  /\ EntriesApart
  /\ EntryIsServed
  /\ AskedHasEntry
  /\ WatcherHasEntry
  /\ StopProgress

LEMMA EndedIsTask == Ended \in Task
BY HealthAssumption DEF Ended, Task, FetchPoint

LEMMA InitHInv == Init => HInv
<1> SUFFICES ASSUME Init PROVE HInv
  OBVIOUS
<1>1. cache \in Seq(Entry) /\ CacheFits
  BY HealthAssumption DEF Init, CacheFits
<1>2. monitored \in [Servers -> Tasks \cup {NoTask}] /\ call \in [Calls -> Servers \cup {NoServer}]
  BY DEF Init
<1>3. task \in [Tasks -> Task]
  BY EndedIsTask DEF Init
<1>4. TypeOK
  BY <1>1, <1>2, <1>3 DEF Init, TypeOK
<1> QED BY <1>4 DEF Init, HInv, EntriesApart, EntryIsServed, AskedHasEntry, WatcherHasEntry,
              StopProgress, Live, Ended

(* What the tasks, the callers and the time do to the cache.                *)
LEMMA CacheKept ==
  ASSUME TypeOK, [Next]_vars
  PROVE  cache' \in Seq(Entry) /\ CacheFits'
<1>1. cache \in Caches /\ Len(cache) <= MaxCache
  BY DEF TypeOK, CacheFits, Caches
<1> SUFFICES cache' \in Caches /\ Len(cache') <= MaxCache
  BY DEF CacheFits, Caches
<1>2. CASE cache' = cache
  BY <1>1, <1>2
<1>3. ASSUME NEW t \in Tasks, RunTask(t) \/ TaskFetches(t)
      PROVE  cache' \in Caches /\ Len(cache') <= MaxCache
  <2> DEFINE s == task[t].server
  <2>1. s \in Servers
    BY DEF TypeOK, Task
  <2> HIDE DEF s
  <2>2. /\ Put(cache, s) \in Caches /\ Len(Put(cache, s)) <= MaxCache
        /\ Put(Put(cache, s), s) \in Caches /\ Len(Put(Put(cache, s), s)) <= MaxCache
    BY <1>1, <2>1, PutFits
  <2>3. \/ cache' = cache \/ cache' = Put(cache, s) \/ cache' \in Touched(cache, s)
        \/ cache' = Put(Put(cache, s), s)
    BY <1>3 DEF RunTask, Loop, TaskFetches, s
  <2> QED BY <1>1, <2>1, <2>2, <2>3, TouchFits
<1>4. ASSUME NEW c \in Calls, CallFetches(c) \/ \E s \in Servers : CallCheck(c, s)
      PROVE  cache' \in Caches /\ Len(cache') <= MaxCache
  <2>1. CASE CallFetches(c)
    <3>1. call[c] \in Servers /\ cache' = Put(cache, call[c])
      BY <2>1 DEF CallFetches, TypeOK
    <3> QED BY <1>1, <3>1, PutFits
  <2>2. ASSUME NEW s \in Servers, CallCheck(c, s)
        PROVE  cache' \in Caches /\ Len(cache') <= MaxCache
    <3>1. cache' \in Touched(cache, s)
      BY <2>2 DEF CallCheck
    <3> QED BY <1>1, <3>1, TouchFits
  <2> QED BY <1>4, <2>1, <2>2
<1>5. ASSUME NEW i \in 1 .. MaxCache, Age(i)
      PROVE  cache' \in Caches /\ Len(cache') <= MaxCache
  <2>1. cache \in Seq(Entry) /\ i \in DOMAIN cache /\ cache' = [cache EXCEPT ![i].fresh = FALSE]
    BY <1>1, <1>5 DEF Age, Caches
  <2> DEFINE e == [cache[i] EXCEPT !.fresh = FALSE]
  <2>2. e \in Entry /\ e.server = cache[i].server
    <3>1. cache[i] \in Entry
      BY <2>1
    <3> QED BY <3>1 DEF Entry
  <2>3. cache' = [cache EXCEPT ![i] = e]
    BY <2>1
  <2> HIDE DEF e
  <2>4. i \in 1 .. Len(cache) /\ DOMAIN cache = 1 .. Len(cache)
    BY <2>1
  <2>5. /\ cache' \in Seq(Entry) /\ Len(cache') = Len(cache)
        /\ \A j \in 1 .. Len(cache) : cache'[j] = IF j = i THEN e ELSE cache[j]
    <3>1. /\ [cache EXCEPT ![i] = e] \in Seq(Entry) /\ Len([cache EXCEPT ![i] = e]) = Len(cache)
          /\ \A j \in 1 .. Len(cache) :
               [cache EXCEPT ![i] = e][j] = IF j = i THEN e ELSE cache[j]
      BY <2>1, <2>2, <2>4, ExceptSeq
    <3> QED BY <2>3, <3>1
  <2>6. DOMAIN cache' = DOMAIN cache /\ \A j \in DOMAIN cache : cache'[j].server = cache[j].server
    BY <2>2, <2>4, <2>5
  <2>7. ASSUME NEW j \in DOMAIN cache', NEW k \in DOMAIN cache', cache'[j].server = cache'[k].server
        PROVE  j = k
    BY <1>1, <2>6, <2>7 DEF Caches
  <2> QED BY <1>1, <2>5, <2>7 DEF Caches
<1>6. CASE UNCHANGED vars
  BY <1>2, <1>6 DEF vars
<1>7. CASE Next
  <2>1. \/ cache' = cache
        \/ \E t \in Tasks : RunTask(t) \/ TaskFetches(t)
        \/ \E c \in Calls : CallFetches(c) \/ \E s \in Servers : CallCheck(c, s)
        \/ \E i \in 1 .. MaxCache : Age(i)
    BY <1>7 DEF Next, TaskStep, Start, Stop, StopReturns, AddServer, RemoveServer, Cancel
  <2> QED BY <1>2, <1>3, <1>4, <1>5, <2>1
<1> QED BY <1>6, <1>7

(* start, and stop before and after its wait.                               *)
LEMMA StopKeepsHInv ==
  ASSUME HInv, Start \/ Stop \/ StopReturns
  PROVE  HInv'
<1>1. TypeOK /\ EntriesApart /\ EntryIsServed /\ AskedHasEntry /\ WatcherHasEntry /\ StopProgress
  BY DEF HInv
<1>2. cache' \in Seq(Entry) /\ CacheFits'
  BY <1>1, CacheKept DEF Next
<1>3. CASE Start
  <2>1. TypeOK'
    BY <1>1, <1>2, <1>3 DEF Start, TypeOK
  <2> QED BY <1>1, <1>3, <2>1 DEF HInv, Start, EntriesApart, EntryIsServed, AskedHasEntry,
                 WatcherHasEntry, StopProgress, Live, AtRest
<1>4. CASE Stop
  <2>1. /\ Monitors \subseteq Tasks
        /\ \A s \in Servers : monitored[s] # NoTask => monitored[s] \in Monitors
    BY <1>1 DEF Monitors, TypeOK
  <2>2. \A t \in Tasks : [task[t] EXCEPT !.cancelled = Live(t)] \in Task
    BY <1>1 DEF TypeOK, Task, Live
  <2>3. task' \in [Tasks -> Task]
    BY <1>1, <1>4, <2>2 DEF Stop, TypeOK
  <2>4. TypeOK'
    BY <1>1, <1>2, <1>4, <2>1, <2>3 DEF Stop, TypeOK
  <2>5. \A t \in Tasks :
          /\ task'[t].at = task[t].at /\ task'[t].server = task[t].server
          /\ task'[t].survived = task[t].survived
          /\ task'[t].cancelled = IF t \in Monitors THEN Live(t) ELSE task[t].cancelled
    BY <1>1, <1>4 DEF Stop, TypeOK, Task
  <2>6. WatcherHasEntry'
    <3> SUFFICES ASSUME NEW t \in Tasks, Live(t)', ~task'[t].cancelled, ~task'[t].survived
                 PROVE  monitored'[task'[t].server] = t
      BY DEF WatcherHasEntry
    <3>1. t \notin Monitors /\ Live(t) /\ ~task[t].cancelled /\ ~task[t].survived
      BY <2>5 DEF Live
    <3> QED BY <1>1, <1>4, <2>5, <3>1 DEF WatcherHasEntry, Stop
  <2> QED BY <1>1, <1>4, <2>1, <2>4, <2>6 DEF HInv, Stop, EntriesApart, EntryIsServed,
                 AskedHasEntry, StopProgress
<1>5. CASE StopReturns
  <2>1. TypeOK'
    BY <1>1, <1>2, <1>5 DEF StopReturns, TypeOK
  <2>2. StopProgress'
    BY <1>1, <1>5 DEF StopProgress, StopReturns, Live, AtRest
  <2> QED BY <1>1, <1>5, <2>1, <2>2 DEF HInv, StopReturns, EntriesApart, EntryIsServed,
                 AskedHasEntry, WatcherHasEntry, Live
<1> QED BY <1>3, <1>4, <1>5

LEMMA AddKeepsHInv ==
  ASSUME HInv, NEW s \in Servers, AddServer(s)
  PROVE  HInv'
<1>1. TypeOK /\ EntriesApart /\ EntryIsServed /\ AskedHasEntry /\ WatcherHasEntry /\ StopProgress
  BY DEF HInv
<1>2. cache' \in Seq(Entry) /\ CacheFits'
  BY <1>1, CacheKept DEF Next
<1>3. asked' \subseteq Servers /\ asked' \subseteq asked \cup {s}
  BY <1>1 DEF AddServer, TypeOK
<1>4. CASE monitored[s] # NoTask
  <2>1. UNCHANGED <<running, stop, waitedFor, monitored, task, call, left>>
    BY <1>4 DEF AddServer
  <2>2. TypeOK'
    BY <1>1, <1>2, <1>3, <2>1 DEF TypeOK
  <2> QED BY <1>1, <1>3, <1>4, <2>1, <2>2 DEF HInv, EntriesApart, EntryIsServed, AskedHasEntry,
                 WatcherHasEntry, StopProgress, Live, AtRest
<1>5. CASE monitored[s] = NoTask
  <2> DEFINE t == CHOOSE u \in Tasks : u \in Unused
             new == [Ended EXCEPT !.at = "new", !.server = s]
  <2>1. /\ Unused # {}
        /\ monitored' = [monitored EXCEPT ![s] = t]
        /\ task' = [task EXCEPT ![t] = new]
        /\ left' = IF running THEN left ELSE left \cup {s}
        /\ UNCHANGED <<running, stop, waitedFor, call>>
    BY <1>5 DEF AddServer, CreateTask
  <2>2. t \in Tasks /\ t \in Unused
    BY <2>1 DEF Unused
  <2>3. new \in Task /\ new.at = "new" /\ new.server = s /\ ~new.cancelled
    BY EndedIsTask DEF Ended, Task
  <2> HIDE DEF t, new
  <2>4. t # NoTask /\ \A r \in Servers : monitored[r] # t
    BY <2>2, HealthAssumption DEF Unused
  <2>5. /\ monitored'[s] = t /\ \A r \in Servers \ {s} : monitored'[r] = monitored[r]
        /\ task'[t] = new /\ \A u \in Tasks \ {t} : task'[u] = task[u]
    BY <1>1, <2>1, <2>2 DEF TypeOK
  <2>6. TypeOK'
    BY <1>1, <1>2, <1>3, <2>1, <2>2, <2>3 DEF TypeOK
  <2>7. EntriesApart'
    BY <1>1, <2>4, <2>5 DEF EntriesApart
  <2>8. EntryIsServed'
    <3> SUFFICES ASSUME NEW r \in Servers, monitored'[r] # NoTask, r \notin left'
                 PROVE  running' /\ Live(monitored[r])' /\ ~task'[monitored'[r]].cancelled
      BY DEF EntryIsServed, Live
    <3>1. CASE r = s
      BY <2>1, <2>3, <2>5, <3>1 DEF Live
    <3>2. CASE r # s
      <4>1. monitored'[r] = monitored[r] /\ monitored[r] \in Tasks \ {t} /\ r \notin left
        BY <1>1, <2>1, <2>4, <2>5, <3>2 DEF TypeOK
      <4> QED BY <1>1, <2>1, <2>5, <4>1 DEF EntryIsServed, Live
    <3> QED BY <3>1, <3>2
  <2>9. AskedHasEntry'
    BY <1>1, <1>3, <2>4, <2>5 DEF AskedHasEntry
  <2>10. WatcherHasEntry'
    <3> SUFFICES ASSUME NEW u \in Tasks, Live(u)', ~task'[u].cancelled, ~task'[u].survived
                 PROVE  monitored'[task'[u].server] = u
      BY DEF WatcherHasEntry
    <3>1. CASE u = t
      BY <2>3, <2>5, <3>1
    <3>2. CASE u # t
      <4>1. task'[u] = task[u] /\ Live(u)
        BY <2>5, <3>2 DEF Live
      <4>2. monitored[task[u].server] = u /\ task[u].server \in Servers /\ u # NoTask
        BY <1>1, <4>1, HealthAssumption DEF WatcherHasEntry, TypeOK, Task
      <4> QED BY <1>5, <2>5, <4>1, <4>2
    <3> QED BY <3>1, <3>2
  <2>11. \A r \in Servers : monitored'[r] # NoTask =>
            \/ AtRest(monitored[r])'
            \/ monitored'[r] = monitored[r] /\ AtRest(monitored[r])' = AtRest(monitored[r])
    <3> SUFFICES ASSUME NEW r \in Servers, monitored'[r] # NoTask, r # s
                 PROVE  monitored'[r] = monitored[r] /\ AtRest(monitored[r])' = AtRest(monitored[r])
      BY <2>3, <2>5 DEF AtRest
    <3>1. monitored'[r] = monitored[r] /\ monitored[r] \in Tasks \ {t}
      BY <1>1, <2>4, <2>5 DEF TypeOK
    <3> QED BY <2>5, <3>1 DEF AtRest
  <2>12. StopProgress'
    BY <1>1, <2>1, <2>11 DEF StopProgress
  <2> QED BY <2>6, <2>7, <2>8, <2>9, <2>10, <2>12 DEF HInv
<1> QED BY <1>4, <1>5

LEMMA RemoveKeepsHInv ==
  ASSUME HInv, NEW s \in Servers, RemoveServer(s)
  PROVE  HInv'
<1>1. TypeOK /\ EntriesApart /\ EntryIsServed /\ AskedHasEntry /\ WatcherHasEntry /\ StopProgress
  BY DEF HInv
<1>2. cache' \in Seq(Entry) /\ CacheFits'
  BY <1>1, CacheKept DEF Next
<1> DEFINE t == monitored[s]
<1>3. t \in Tasks
  BY <1>1 DEF RemoveServer, TypeOK
<1>4. /\ task' = [task EXCEPT ![t].cancelled = Live(t)]
      /\ monitored' = [monitored EXCEPT ![s] = NoTask]
      /\ asked' = asked \ {s} /\ left' = left \ {s}
      /\ UNCHANGED <<running, stop, waitedFor, call, cache>>
  BY DEF RemoveServer, Forgotten
<1>5. \A r \in Servers \ {s} :
        monitored'[r] = monitored[r] /\ (monitored[r] # NoTask => monitored[r] # t)
  BY <1>1, <1>4 DEF EntriesApart, TypeOK
<1>6. monitored'[s] = NoTask
  BY <1>1, <1>4 DEF TypeOK
<1>7. t # NoTask
  BY <1>3, HealthAssumption
<1> HIDE DEF t
<1>8. /\ task' \in [Tasks -> Task]
      /\ \A u \in Tasks : /\ task'[u].at = task[u].at /\ task'[u].server = task[u].server
                          /\ task'[u].survived = task[u].survived
                          /\ task'[u].cancelled = IF u = t THEN Live(t) ELSE task[u].cancelled
  <2>1. [task[t] EXCEPT !.cancelled = Live(t)] \in Task
    BY <1>1, <1>3 DEF TypeOK, Task, Live
  <2> QED BY <1>1, <1>3, <1>4, <2>1 DEF TypeOK, Task
<1>9. TypeOK'
  BY <1>1, <1>2, <1>4, <1>8 DEF TypeOK
<1>10. EntriesApart'
  BY <1>1, <1>5, <1>6 DEF EntriesApart
<1>11. EntryIsServed'
  <2> SUFFICES ASSUME NEW r \in Servers, monitored'[r] # NoTask, r \notin left'
               PROVE  running' /\ Live(monitored[r])' /\ ~task'[monitored'[r]].cancelled
    BY DEF EntryIsServed, Live
  <2>1. r # s /\ r \notin left /\ monitored'[r] = monitored[r] /\ monitored[r] \in Tasks \ {t}
    BY <1>1, <1>4, <1>5, <1>6 DEF TypeOK
  <2> QED BY <1>1, <1>4, <1>8, <2>1 DEF EntryIsServed, Live
<1>12. AskedHasEntry'
  BY <1>1, <1>4, <1>5 DEF AskedHasEntry, TypeOK
<1>13. WatcherHasEntry'
  <2> SUFFICES ASSUME NEW u \in Tasks, Live(u)', ~task'[u].cancelled, ~task'[u].survived
               PROVE  monitored'[task'[u].server] = u
    BY DEF WatcherHasEntry
  <2>1. u # t /\ Live(u) /\ ~task[u].cancelled /\ ~task[u].survived
    BY <1>8 DEF Live
  <2>2. monitored[task[u].server] = u /\ task[u].server \in Servers
    BY <1>1, <2>1 DEF WatcherHasEntry, TypeOK, Task
  <2> QED BY <1>5, <1>8, <2>1, <2>2 DEF t
<1>14. StopProgress'
  <2>1. \A r \in Servers : monitored'[r] # NoTask =>
          monitored'[r] = monitored[r] /\ AtRest(monitored[r])' = AtRest(monitored[r])
    BY <1>1, <1>5, <1>6, <1>8 DEF AtRest, TypeOK
  <2> QED BY <1>1, <1>4, <2>1 DEF StopProgress
<1> QED BY <1>9, <1>10, <1>11, <1>12, <1>13, <1>14 DEF HInv

(* A task ends when it was cancelled or finds the monitor stopped, takes    *)
(* its cancellation for a failed endpoint, or goes on.                      *)
LEMMA TaskStepCases ==
  ASSUME TypeOK, NEW t \in Tasks, TaskStep(t)
  PROVE  /\ UNCHANGED <<running, stop, waitedFor, monitored, call, asked, left>>
         /\ task' \in [Tasks -> Task]
         /\ \A u \in Tasks \ {t} : task'[u] = task[u]
         /\ Live(t)
         /\ \/ task'[t].at = "done" /\ (task[t].cancelled \/ ~running)
            \/ /\ task[t].cancelled /\ task'[t].survived
               /\ task[t].at = "fetch" /\ task'[t].at = "fetch"
            \/ /\ running \/ task[t].at = "fetch"
               /\ task'[t].at # "done"
               /\ task'[t].server = task[t].server
               /\ task'[t].cancelled = task[t].cancelled
               /\ task'[t].survived = task[t].survived
<1> DEFINE old == task[t]
<1>1. old \in Task /\ task \in [Tasks -> Task]
  BY DEF TypeOK
<1>2. UNCHANGED <<running, stop, waitedFor, monitored, call, asked, left>>
  BY DEF TaskStep, RunTask, Cancel, TaskFetches
<1>3. Ended.at = "done"
  BY DEF Ended
<1>4. \A n \in Task : task' = [task EXCEPT ![t] = n] =>
        /\ task' \in [Tasks -> Task] /\ task'[t] = n
        /\ \A u \in Tasks \ {t} : task'[u] = task[u]
  BY <1>1
<1>5. old.point > 0 => old.point - 1 \in FetchPoint
  BY <1>1, HealthAssumption DEF Task, FetchPoint
<1>6. CASE RunTask(t)
  <2>1. CASE ~running
    <3>1. task' = [task EXCEPT ![t] = Ended]
      BY <1>6, <2>1 DEF RunTask, Loop, GoesOn
    <3> QED BY <1>2, <1>3, <1>4, <1>6, <2>1, <3>1, EndedIsTask DEF RunTask, Live
  <2>2. CASE running
    <3>1. \/ task' = [task EXCEPT ![t] = [old EXCEPT !.at = "sleep"]]
          \/ task' = [task EXCEPT
                        ![t] = [old EXCEPT !.at = "fetch", !.point = FirstPoint(old.server)]]
      BY <1>1, <1>6, <2>2 DEF RunTask, Loop, GoesOn
    <3>2. FirstPoint(old.server) \in FetchPoint
      BY HealthAssumption DEF FirstPoint, FetchPoint
    <3>3. /\ [old EXCEPT !.at = "sleep"] \in Task
          /\ [old EXCEPT !.at = "fetch", !.point = FirstPoint(old.server)] \in Task
      BY <1>1, <3>2 DEF Task
    <3>4. \A n \in {[old EXCEPT !.at = "sleep"],
                    [old EXCEPT !.at = "fetch", !.point = FirstPoint(old.server)]} :
            /\ n.server = old.server /\ n.cancelled = old.cancelled /\ n.survived = old.survived
            /\ n.at # "done"
      BY <1>1 DEF Task
    <3> QED BY <1>2, <1>4, <1>6, <2>2, <3>1, <3>3, <3>4 DEF RunTask, Live
  <2> QED BY <2>1, <2>2 DEF TypeOK
<1>7. CASE Cancel(t)
  <2>1. CASE old.at = "fetch" /\ old.point > 0
    <3> DEFINE new == [old EXCEPT !.point = @ - 1, !.cancelled = FALSE, !.survived = TRUE]
    <3>1. task' = [task EXCEPT ![t] = new]
      BY <1>7, <2>1 DEF Cancel
    <3>2. old.point - 1 \in FetchPoint
      BY <1>1, <1>5, <2>1
    <3>3. new \in Task /\ new.survived /\ new.at = "fetch"
      BY <1>1, <2>1, <3>2 DEF Task
    <3> QED BY <1>2, <1>4, <1>7, <2>1, <3>1, <3>3 DEF Cancel, Live
  <2>2. CASE ~(old.at = "fetch" /\ old.point > 0)
    <3>1. task' = [task EXCEPT ![t] = Ended]
      BY <1>7, <2>2 DEF Cancel
    <3> QED BY <1>2, <1>3, <1>4, <1>7, <3>1, EndedIsTask DEF Cancel
  <2> QED BY <2>1, <2>2
<1>8. CASE TaskFetches(t)
  <2>1. \/ task' = [task EXCEPT ![t] = [old EXCEPT !.at = "sleep", !.point = 0]]
        \/ old.point > 0 /\ task' = [task EXCEPT ![t] = [old EXCEPT !.point = @ - 1]]
    BY <1>1, <1>8 DEF TaskFetches
  <2>2. /\ [old EXCEPT !.at = "sleep", !.point = 0] \in Task
        /\ old.point > 0 => [old EXCEPT !.point = @ - 1] \in Task
    <3>1. 0 \in FetchPoint
      BY HealthAssumption DEF FetchPoint
    <3>2. ASSUME old.point > 0
          PROVE  [old EXCEPT !.point = @ - 1] \in Task
      BY <1>1, <1>5, <3>2 DEF Task
    <3>3. [old EXCEPT !.at = "sleep", !.point = 0] \in Task
      BY <1>1, <3>1 DEF Task
    <3> QED BY <3>2, <3>3
  <2>3. \A n \in {[old EXCEPT !.at = "sleep", !.point = 0], [old EXCEPT !.point = @ - 1]} :
          /\ n.server = old.server /\ n.cancelled = old.cancelled /\ n.survived = old.survived
          /\ n.at # "done"
    BY <1>1, <1>8 DEF Task, TaskFetches
  <2> QED BY <1>2, <1>4, <1>8, <2>1, <2>2, <2>3 DEF TaskFetches, Live
<1> QED BY <1>6, <1>7, <1>8 DEF TaskStep

LEMMA TaskKeepsHInv ==
  ASSUME HInv, NEW t \in Tasks, TaskStep(t)
  PROVE  HInv'
<1>1. TypeOK /\ EntriesApart /\ EntryIsServed /\ AskedHasEntry /\ WatcherHasEntry /\ StopProgress
  BY DEF HInv
<1>2. cache' \in Seq(Entry) /\ CacheFits'
  BY <1>1, CacheKept DEF Next
<1>3. /\ UNCHANGED <<running, stop, waitedFor, monitored, call, asked, left>>
      /\ task' \in [Tasks -> Task]
      /\ \A u \in Tasks \ {t} : task'[u] = task[u]
      /\ Live(t)
      /\ \/ task'[t].at = "done" /\ (task[t].cancelled \/ ~running)
         \/ /\ task[t].cancelled /\ task'[t].survived
            /\ task[t].at = "fetch" /\ task'[t].at = "fetch"
         \/ /\ running \/ task[t].at = "fetch"
            /\ task'[t].at # "done"
            /\ task'[t].server = task[t].server
            /\ task'[t].cancelled = task[t].cancelled
            /\ task'[t].survived = task[t].survived
  BY <1>1, TaskStepCases
<1>4. TypeOK'
  BY <1>1, <1>2, <1>3 DEF TypeOK
<1>5. EntriesApart' /\ AskedHasEntry'
  BY <1>1, <1>3 DEF EntriesApart, AskedHasEntry
<1>6. EntryIsServed'
  <2> SUFFICES ASSUME NEW s \in Servers, monitored[s] # NoTask, s \notin left
               PROVE  running /\ Live(monitored[s])' /\ ~task'[monitored[s]].cancelled
    BY <1>3 DEF EntryIsServed, Live
  <2>1. monitored[s] \in Tasks /\ running /\ Live(monitored[s]) /\ ~task[monitored[s]].cancelled
    BY <1>1 DEF EntryIsServed, TypeOK
  <2> QED BY <1>3, <2>1 DEF Live
<1>7. WatcherHasEntry'
  <2> SUFFICES ASSUME NEW u \in Tasks, Live(u)', ~task'[u].cancelled, ~task'[u].survived
               PROVE  monitored[task'[u].server] = u
    BY <1>3 DEF WatcherHasEntry
  <2>1. Live(u) /\ task'[u].server = task[u].server /\ ~task[u].cancelled /\ ~task[u].survived
    BY <1>3 DEF Live
  <2> QED BY <1>1, <2>1 DEF WatcherHasEntry
<1>8. StopProgress'
  <2>1. running \/ \A u \in Tasks : AtRest(u) => AtRest(u)'
    BY <1>3 DEF AtRest, Live
  <2>2. \A s \in Servers : monitored[s] # NoTask => monitored[s] \in Tasks
    BY <1>1 DEF TypeOK
  <2> QED BY <1>1, <1>3, <2>1, <2>2 DEF StopProgress, AtRest
<1> QED BY <1>4, <1>5, <1>6, <1>7, <1>8 DEF HInv

LEMMA StepKeepsHInv == HInv /\ [Next]_vars => HInv'
<1> SUFFICES ASSUME HInv, [Next]_vars PROVE HInv'
  OBVIOUS
<1>1. ASSUME UNCHANGED <<running, stop, waitedFor, monitored, task, asked, left>>,
             call' \in [Calls -> Servers \cup {NoServer}]
      PROVE  HInv'
  <2>1. cache' \in Seq(Entry) /\ CacheFits'
    BY CacheKept DEF HInv
  <2> QED BY <1>1, <2>1 DEF HInv, TypeOK, EntriesApart, EntryIsServed, AskedHasEntry,
                 WatcherHasEntry, StopProgress, Live, AtRest
<1>2. CASE UNCHANGED vars
  BY <1>1, <1>2 DEF vars, HInv, TypeOK
<1>3. ASSUME NEW c \in Calls, CallFetches(c) \/ \E s \in Servers : CallCheck(c, s)
      PROVE  HInv'
  <2>1. call' \in [Calls -> Servers \cup {NoServer}]
    BY <1>3 DEF CallFetches, CallCheck, HInv, TypeOK
  <2> QED BY <1>1, <1>3, <2>1 DEF CallFetches, CallCheck
<1>4. ASSUME NEW i \in 1 .. MaxCache, Age(i)
      PROVE  HInv'
  BY <1>1, <1>4 DEF Age, HInv, TypeOK
<1>5. CASE Next
  BY <1>3, <1>4, <1>5, StopKeepsHInv, AddKeepsHInv, RemoveKeepsHInv, TaskKeepsHInv DEF Next
<1> QED BY <1>2, <1>5

LEMMA AlwaysHInv == Spec => []HInv
BY InitHInv, StepKeepsHInv, PTL DEF Spec

(* Every variable of the health monitor keeps its type.                     *)
THEOREM HealthTypes == Spec => []TypeOK
BY AlwaysHInv, PTL DEF HInv

(* The cache keeps its limit and one check for each server, whatever tasks  *)
(* and callers store and look up.                                           *)
THEOREM CacheKeepsLimit == Spec => []CacheFits
BY AlwaysHInv, PTL DEF HInv, TypeOK

(* A server is never watched by two tasks that were not told to go: a task  *)
(* that goes on uncancelled is the one its server's entry holds.            *)
THEOREM ServerHasOneWatcher == Spec => []OneWatcher
<1>1. HInv => OneWatcher
  BY DEF HInv, WatcherHasEntry, OneWatcher
<1> QED BY <1>1, AlwaysHInv, PTL

(* A server added while the monitor runs keeps its task until it is removed *)
(* or the monitor is stopped.                                               *)
THEOREM AddedStaysWatched == Spec => []AddedIsWatched
<1>1. HInv => AddedIsWatched
  BY DEF HInv, TypeOK, EntryIsServed, AskedHasEntry, AddedIsWatched
<1> QED BY <1>1, AlwaysHInv, PTL

(* After stop no task of an entry is at work.                               *)
THEOREM StopLeavesQuiet == Spec => []QuietOnceStopped
<1>1. HInv => QuietOnceStopped
  BY DEF HInv, StopProgress, AtRest, QuietOnceStopped, Monitors
<1> QED BY <1>1, AlwaysHInv, PTL

--------------------------------------------------------------------------------
(* The batch monitor.                                                       *)
(* What a round still has to store are results of servers that are there,   *)
(* or were removed in the middle of it.                                     *)
BInv ==
  /\ servers \in Seq(Batched)
  /\ rest \in Seq(Batched)
  /\ ToSet(rest) \subseteq ToSet(servers) \cup late
  /\ Batch!OrphansWereInTheRound

(* The instance has the operators on sequences under names of its own.      *)
LEMMA SameOperators ==
  /\ \A c : Batch!ToSet(c) = ToSet(c)
  /\ \A c, i : Batch!RemoveAt(c, i) = RemoveAt(c, i)
BY DEF ToSet, Batch!ToSet, RemoveAt, Batch!RemoveAt

LEMMA SliceFacts ==
  ASSUME NEW S, NEW c \in Seq(S), NEW m \in 1 .. (Len(c) + 1), NEW n \in 0 .. Len(c)
  PROVE  SubSeq(c, m, n) \in Seq(S) /\ ToSet(SubSeq(c, m, n)) \subseteq ToSet(c)
<1>1. /\ SubSeq(c, m, n) \in Seq(S)
      /\ \A i \in DOMAIN SubSeq(c, m, n) : \E j \in DOMAIN c : SubSeq(c, m, n)[i] = c[j]
  <2>1. CASE m <= n
    <3>1. /\ SubSeq(c, m, n) \in Seq(S) /\ Len(SubSeq(c, m, n)) = n - m + 1
          /\ \A i \in 1 .. (n - m + 1) : SubSeq(c, m, n)[i] = c[m + i - 1] /\ m + i - 1 \in DOMAIN c
      BY <2>1
    <3> QED BY <3>1
  <2>2. CASE ~(m <= n)
    BY <2>2, SubSeqProperties
  <2> QED BY <2>1, <2>2
<1> QED BY <1>1 DEF ToSet

(* The next batch is a slice from the front, what remains is the rest.      *)
LEMMA BatchFacts ==
  ASSUME NEW c \in Seq(Batched)
  PROVE  /\ ToSet(Batch!Batch(c)) \subseteq ToSet(c)
         /\ SubSeq(c, Len(Batch!Batch(c)) + 1, Len(c)) \in Seq(Batched)
         /\ ToSet(SubSeq(c, Len(Batch!Batch(c)) + 1, Len(c))) \subseteq ToSet(c)
<1> DEFINE n == IF Len(c) < BatchSize THEN Len(c) ELSE BatchSize
<1>1. n \in 0 .. Len(c) /\ Batch!Batch(c) = SubSeq(c, 1, n)
  BY BatchAssumption DEF Batch!Batch
<1> HIDE DEF n
<1>2. Len(SubSeq(c, 1, n)) = n
  BY <1>1, SubSeqProperties
<1>3. 1 \in 1 .. (Len(c) + 1) /\ n + 1 \in 1 .. (Len(c) + 1) /\ Len(c) \in 0 .. Len(c)
  BY <1>1
<1> QED BY <1>1, <1>2, <1>3, SliceFacts

LEMMA AddedFacts ==
  ASSUME NEW S, NEW c \in Seq(S), NEW s \in S
  PROVE  Append(c, s) \in Seq(S) /\ ToSet(Append(c, s)) = ToSet(c) \cup {s}
<1>1. /\ Append(c, s) \in Seq(S) /\ DOMAIN Append(c, s) = DOMAIN c \cup {Len(c) + 1}
      /\ \A i \in DOMAIN c : Append(c, s)[i] = c[i]
      /\ Append(c, s)[Len(c) + 1] = s
  OBVIOUS
<1> QED BY <1>1 DEF ToSet

LEMMA RemovedFacts ==
  ASSUME NEW S, NEW c \in Seq(S), NEW i \in DOMAIN c
  PROVE  RemoveAt(c, i) \in Seq(S) /\ ToSet(c) \ {c[i]} \subseteq ToSet(RemoveAt(c, i))
<1>1. i \in 1 .. Len(c) /\ Len(c) \in Nat
  OBVIOUS
<1>2. /\ RemoveAt(c, i) \in Seq(S) /\ Len(RemoveAt(c, i)) = Len(c) - 1
      /\ \A j \in 1 .. (Len(c) - 1) : RemoveAt(c, i)[j] = IF j < i THEN c[j] ELSE c[j + 1]
  BY <1>1, RemoveAtFacts
<1>3. ASSUME NEW k \in DOMAIN c, c[k] # c[i]
      PROVE  \E j \in DOMAIN RemoveAt(c, i) : RemoveAt(c, i)[j] = c[k]
  <2>1. CASE k < i
    <3>1. k \in 1 .. (Len(c) - 1) /\ k \in DOMAIN RemoveAt(c, i)
      BY <1>1, <1>2, <2>1
    <3> QED BY <1>2, <2>1, <3>1
  <2>2. CASE ~(k < i)
    <3>1. /\ k - 1 \in 1 .. (Len(c) - 1) /\ k - 1 \in DOMAIN RemoveAt(c, i)
          /\ ~(k - 1 < i) /\ (k - 1) + 1 = k
      BY <1>1, <1>2, <1>3, <2>2
    <3> QED BY <1>2, <3>1
  <2> QED BY <2>1, <2>2
<1> QED BY <1>2, <1>3 DEF ToSet

LEMMA InitBInv == Batch!Init => BInv
BY DEF Batch!Init, BInv, Batch!OrphansWereInTheRound, ToSet

LEMMA StepKeepsBInv ==
  ASSUME BInv, [Batch!Next]_Batch!vars
  PROVE  BInv'
<1>1. /\ servers \in Seq(Batched) /\ rest \in Seq(Batched)
      /\ ToSet(rest) \subseteq ToSet(servers) \cup late
      /\ results \subseteq ToSet(servers) \cup late
  BY SameOperators DEF BInv, Batch!OrphansWereInTheRound
<1> SUFFICES /\ servers' \in Seq(Batched) /\ rest' \in Seq(Batched)
             /\ ToSet(rest') \subseteq ToSet(servers') \cup late'
             /\ results' \subseteq ToSet(servers') \cup late'
  BY SameOperators DEF BInv, Batch!OrphansWereInTheRound
<1>2. CASE UNCHANGED <<servers, rest, results, late>>
  BY <1>1, <1>2
<1>3. ASSUME NEW s \in Batched, Batch!AddServer(s)
      PROVE  /\ servers' \in Seq(Batched) /\ rest' \in Seq(Batched)
             /\ ToSet(rest') \subseteq ToSet(servers') \cup late'
             /\ results' \subseteq ToSet(servers') \cup late'
  <2>1. servers' \in Seq(Batched) /\ ToSet(servers') = ToSet(servers) \cup {s}
    BY <1>1, <1>3, AddedFacts DEF Batch!AddServer
  <2> QED BY <1>1, <1>3, <2>1 DEF Batch!AddServer
<1>4. ASSUME NEW s \in Batched, Batch!RemoveServer(s)
      PROVE  /\ servers' \in Seq(Batched) /\ rest' \in Seq(Batched)
             /\ ToSet(rest') \subseteq ToSet(servers') \cup late'
             /\ results' \subseteq ToSet(servers') \cup late'
  <2> DEFINE i == CHOOSE j \in DOMAIN servers : servers[j] = s
  <2>1. i \in DOMAIN servers /\ servers[i] = s
    BY <1>4, SameOperators DEF Batch!RemoveServer, ToSet
  <2>2. servers' = RemoveAt(servers, i)
    BY <1>4, SameOperators DEF Batch!RemoveServer
  <2> HIDE DEF i
  <2>3. servers' \in Seq(Batched) /\ ToSet(servers) \ {s} \subseteq ToSet(servers')
    BY <1>1, <2>1, <2>2, RemovedFacts
  <2> QED BY <1>1, <1>4, <2>3, SameOperators DEF Batch!RemoveServer, Batch!Forgotten
<1>5. CASE Batch!BeginRound
  BY <1>1, <1>5 DEF Batch!BeginRound, Batch!Begin
<1>6. CASE Batch!StoreBatch
  <2>1. /\ rest' = SubSeq(rest, Len(Batch!Batch(rest)) + 1, Len(rest))
        /\ results' = results \cup ToSet(Batch!Batch(rest))
        /\ UNCHANGED <<servers, late>>
    BY <1>6, SameOperators DEF Batch!StoreBatch, Batch!Begin
  <2> QED BY <1>1, <2>1, BatchFacts
<1>7. CASE Batch!LoopCancelled
  <2>1. rest' \in Seq(Batched) /\ ToSet(rest') = {}
    BY <1>7 DEF Batch!LoopCancelled, ToSet
  <2> QED BY <1>1, <1>7, <2>1 DEF Batch!LoopCancelled
<1>8. CASE Batch!Next
  <2>1. \/ UNCHANGED <<servers, rest, results, late>>
        \/ \E s \in Batched : Batch!AddServer(s) \/ Batch!RemoveServer(s)
        \/ Batch!BeginRound \/ Batch!StoreBatch \/ Batch!LoopCancelled
    BY <1>8 DEF Batch!Next, Batch!Start, Batch!Stop, Batch!StopReturns, Batch!Enter, Batch!EndCheck
  <2> QED BY <1>2, <1>3, <1>4, <1>5, <1>6, <1>7, <2>1
<1> QED BY <1>2, <1>8 DEF Batch!vars

(* A result without a server is one a removal left behind in the middle of  *)
(* a round, whatever the servers and the size of a batch.                   *)
THEOREM OrphansAreLateRemovals == Batch!Spec => []OrphansWereInTheRound
<1>1. BInv /\ [Batch!Next]_Batch!vars => BInv'
  BY StepKeepsBInv
<1>2. BInv => OrphansWereInTheRound
  BY DEF BInv, OrphansWereInTheRound
<1> QED BY <1>1, <1>2, InitBInv, PTL DEF Batch!Spec

--------------------------------------------------------------------------------
(* The semaphore: a place is taken by each check that asks, by nothing else.*)
Asking == {s \in Batched : check[s] = "asking"}

PlacesAccounted == permits \in Nat /\ permits + Cardinality(Asking) = MaxConcurrent

(* No check is left when the loop is not in the middle of a batch.          *)
PInv ==
  /\ check \in [Batched -> {"none", "new", "asking", "ended"}]
  /\ PlacesAccounted
  /\ loop # "checking" => \A s \in Batched : check[s] = "none"
  /\ ~on /\ ~stopping => loop = "none"

LEMMA StepKeepsPInv ==
  ASSUME PInv, [Batch!Next]_Batch!vars
  PROVE  PInv'
<1>1. Asking \subseteq Batched /\ IsFiniteSet(Asking) /\ Cardinality(Asking) \in Nat
  BY FS_Subset, FS_CardinalityType, BatchAssumption DEF Asking
<1>2. ASSUME permits' = permits, Asking' = Asking
      PROVE  PlacesAccounted'
  BY <1>2 DEF PInv, PlacesAccounted
<1>3. ASSUME Batch!BatchEnded \/ loop # "checking"
      PROVE  Asking = {}
  BY <1>3 DEF PInv, Batch!BatchEnded, Asking
<1>4. ASSUME NEW list, Batch!Begin(list)
      PROVE  /\ Asking' = {} /\ check' \in [Batched -> {"none", "new", "asking", "ended"}]
             /\ loop' # "checking" => \A s \in Batched : check'[s] = "none"
  <2>1. /\ check' = [s \in Batched |->
                       IF s \in Batch!ToSet(Batch!Batch(list)) THEN "new" ELSE "none"]
        /\ loop' = IF Batch!Batch(list) = <<>> THEN "sleeping" ELSE "checking"
    BY <1>4 DEF Batch!Begin
  <2>2. Batch!ToSet(<<>>) = {}
    BY DEF Batch!ToSet
  <2> QED BY <2>1, <2>2 DEF Asking
<1>5. ASSUME UNCHANGED <<check, permits>>,
             loop' # "checking" => loop # "checking",
             ~on' /\ ~stopping' => loop' = "none"
      PROVE  PInv'
  BY <1>2, <1>5 DEF PInv, Asking
<1>6. CASE Batch!Start
  BY <1>5, <1>6 DEF Batch!Start, PInv
<1>7. CASE Batch!Stop \/ Batch!StopReturns \/ UNCHANGED Batch!vars
           \/ \E s \in Batched : Batch!AddServer(s) \/ Batch!RemoveServer(s)
  BY <1>5, <1>7 DEF Batch!Stop, Batch!StopReturns, Batch!vars, Batch!AddServer,
                    Batch!RemoveServer, PInv
<1>8. CASE Batch!BeginRound
  <2>1. /\ Asking' = {} /\ check' \in [Batched -> {"none", "new", "asking", "ended"}]
        /\ loop' # "checking" => \A s \in Batched : check'[s] = "none"
    BY <1>4, <1>8 DEF Batch!BeginRound
  <2>2. Asking = {} /\ loop # "none" /\ UNCHANGED <<on, stopping, permits>>
    BY <1>3, <1>8 DEF Batch!BeginRound
  <2> QED BY <1>2, <2>1, <2>2 DEF PInv
<1>9. CASE Batch!StoreBatch
  <2>1. /\ Asking' = {} /\ check' \in [Batched -> {"none", "new", "asking", "ended"}]
        /\ loop' # "checking" => \A s \in Batched : check'[s] = "none"
    BY <1>4, <1>9 DEF Batch!StoreBatch
  <2>2. Asking = {} /\ loop # "none" /\ UNCHANGED <<on, stopping, permits>>
    BY <1>3, <1>9 DEF Batch!StoreBatch
  <2> QED BY <1>2, <2>1, <2>2 DEF PInv
<1>10. CASE Batch!LoopCancelled
  <2>1. Asking = {} /\ Asking' = {} /\ permits' = permits /\ loop' = "none"
        /\ check' = [s \in Batched |-> "none"]
    BY <1>3, <1>10 DEF Batch!LoopCancelled, Batch!NoCheck, Asking
  <2> QED BY <1>2, <2>1 DEF PInv
<1>11. ASSUME NEW s \in Batched, Batch!Enter(s)
       PROVE  PInv'
  <2>1. /\ check[s] = "new" /\ permits \in Nat /\ permits > 0 /\ permits' = permits - 1
        /\ check' = [check EXCEPT ![s] = "asking"] /\ UNCHANGED <<on, loop, stopping>>
    BY <1>11 DEF Batch!Enter, PInv, PlacesAccounted
  <2>2. s \notin Asking /\ Asking' = Asking \cup {s}
    BY <2>1 DEF Asking, PInv
  <2>3. Cardinality(Asking') = Cardinality(Asking) + 1
    BY <1>1, <2>2, FS_AddElement
  <2>4. PlacesAccounted'
    BY <1>1, <2>1, <2>3 DEF PInv, PlacesAccounted
  <2> QED BY <2>1, <2>4 DEF PInv
<1>12. ASSUME NEW s \in Batched, Batch!EndCheck(s)
       PROVE  PInv'
  <2>1. /\ check[s] \in {"asking", "new"}
        /\ permits' = permits + (IF check[s] = "asking" THEN 1 ELSE 0)
        /\ check' = [check EXCEPT ![s] = "ended"] /\ UNCHANGED <<on, loop, stopping>>
    BY <1>12 DEF Batch!EndCheck, Batch!Released
  <2>2. PlacesAccounted'
    <3>1. CASE check[s] = "asking"
      <4>1. s \in Asking /\ Asking' = Asking \ {s}
        BY <2>1, <3>1 DEF Asking, PInv
      <4>2. Cardinality(Asking') = Cardinality(Asking) - 1
        BY <1>1, <4>1, FS_RemoveElement
      <4>3. Cardinality(Asking') \in Nat
        BY <1>1, <4>1, FS_Subset, FS_CardinalityType, BatchAssumption
      <4> QED BY <1>1, <2>1, <3>1, <4>2, <4>3 DEF PInv, PlacesAccounted
    <3>2. CASE check[s] = "new"
      <4>1. Asking' = Asking
        BY <2>1, <3>2 DEF Asking, PInv
      <4> QED BY <1>2, <2>1, <3>2, <4>1 DEF PInv, PlacesAccounted
    <3> QED BY <2>1, <3>1, <3>2
  <2> QED BY <2>1, <2>2 DEF PInv
<1> QED BY <1>6, <1>7, <1>8, <1>9, <1>10, <1>11, <1>12 DEF Batch!Next

(* At most max_concurrent checks ask at once, and every place comes back:   *)
(* after a stop in the middle of a batch the semaphore is as it was.        *)
THEOREM PlacesComeBack ==
  Batch!Spec => [](/\ Cardinality(Asking) <= MaxConcurrent
                   /\ loop # "checking" => permits = MaxConcurrent)
<1>1. Batch!Init => PInv
  <2> SUFFICES ASSUME Batch!Init PROVE PInv
    OBVIOUS
  <2>1. check = [s \in Batched |-> "none"] /\ permits = MaxConcurrent /\ loop = "none"
    BY DEF Batch!Init, Batch!NoCheck
  <2>2. Asking = {}
    BY <2>1 DEF Asking
  <2> QED BY <2>1, <2>2, FS_EmptySet, BatchAssumption DEF PInv, PlacesAccounted
<1>2. PInv /\ [Batch!Next]_Batch!vars => PInv'
  BY StepKeepsPInv
<1>3. PInv => /\ Cardinality(Asking) <= MaxConcurrent
              /\ loop # "checking" => permits = MaxConcurrent
  <2> SUFFICES ASSUME PInv
               PROVE  /\ Cardinality(Asking) <= MaxConcurrent
                      /\ loop # "checking" => permits = MaxConcurrent
    OBVIOUS
  <2>1. Cardinality(Asking) \in Nat
    BY FS_Subset, FS_CardinalityType, BatchAssumption DEF Asking
  <2>2. loop # "checking" => Asking = {}
    BY DEF PInv, Asking
  <2>3. permits \in Nat /\ MaxConcurrent \in Nat /\ permits + Cardinality(Asking) = MaxConcurrent
    BY BatchAssumption DEF PInv, PlacesAccounted
  <2> QED BY <2>1, <2>2, <2>3, FS_EmptySet
<1> QED BY <1>1, <1>2, <1>3, PTL DEF Batch!Spec

--------------------------------------------------------------------------------
(* The store.                                                               *)
CONSTANTS Requests, NoOne

VARIABLES service, stored, file, lock, request, pc

Store == INSTANCE ServerStore WITH servers <- stored

(* Whoever changed the store waits for the lock it holds, so that nobody is *)
(* past it, and while the lock is free nothing was changed.                 *)
SInv(S) ==
  /\ pc \in [Requests -> {"idle", "acquire", "save", "answered", "verifying", "over"}]
  /\ service # "up" => \A r \in Requests : pc[r] \in {"idle", "over"}
  /\ \A r \in Requests : pc[r] = "save" => lock # NoOne
  /\ service = "closing" \/ (lock = NoOne /\ service = "up") => stored \subseteq S
  /\ file.set \subseteq S

LEMMA StepKeepsSInv ==
  ASSUME NoOne \notin Requests, NEW S, SInv(S), [Store!Next]_Store!vars
  PROVE  SInv(S)'
<1> USE DEF SInv, Store!Goto
<1>1. CASE UNCHANGED Store!vars
  BY <1>1 DEF Store!vars
<1>2. ASSUME NEW r \in Requests, Store!Arrive(r) \/ Store!Verify(r) \/ Store!Verified(r)
      PROVE  SInv(S)'
  BY <1>2 DEF Store!Arrive, Store!Verify, Store!Verified
<1>3. ASSUME NEW r \in Requests, Store!Change(r)
      PROVE  SInv(S)'
  BY <1>3 DEF Store!Change, Store!Replied
<1>4. ASSUME NEW r \in Requests
      PROVE  ~Store!EnterSave(r) /\ ~Store!Write(r) /\ ~Store!Release(r)
  BY DEF Store!EnterSave, Store!Write, Store!Release
<1>5. CASE Store!Startup
  BY <1>5 DEF Store!Startup, Store!Idle
<1>6. CASE Store!Close \/ Store!CloseWrite
  <2>1. stored \subseteq S /\ UNCHANGED <<stored, lock, request, pc>> /\ service' # "up"
    BY <1>6 DEF Store!Close, Store!CloseWrite
  <2>2. file' = file \/ file'.set = {} \/ file'.set = stored
    BY <1>6 DEF Store!Close, Store!CloseWrite, Store!Torn, Store!Readable
  <2>3. \A r \in Requests : pc[r] \in {"idle", "over"}
    BY <1>6 DEF Store!Close, Store!CloseWrite
  <2>4. file'.set \subseteq S
    BY <2>1, <2>2
  <2> QED BY <2>1, <2>3, <2>4
<1>7. CASE Store!Kill
  BY <1>7 DEF Store!Kill, Store!Idle
<1> QED BY <1>1, <1>2, <1>3, <1>4, <1>5, <1>6, <1>7 DEF Store!Next, Store!Step

(* Because every writer waits for itself, no registration ever reaches the  *)
(* file: whatever servers it holds, it held before the service was first    *)
(* started.                                                                 *)
THEOREM FileGainsNothing ==
  ASSUME NoOne \notin Requests, NEW CONSTANT S
  PROVE  Store!FairSpec /\ file.set \subseteq S => [](file.set \subseteq S)
<1>1. Store!Init /\ file.set \subseteq S => SInv(S)
  BY DEF Store!Init, Store!Idle, SInv
<1>2. SInv(S) /\ [Store!Next]_Store!vars => SInv(S)'
  BY StepKeepsSInv
<1>3. SInv(S) => file.set \subseteq S
  BY DEF SInv
<1> QED BY <1>1, <1>2, <1>3, PTL DEF Store!FairSpec
================================================================================
