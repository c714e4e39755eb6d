----------------------------- MODULE HealthMonitor -----------------------------
(***************************************************************************)
(* The health monitor of the MCP registry (mcp-registry/monitor/health.py):*)
(* one asyncio task per monitored server, all on one event loop, and the   *)
(* calls of the API that check a server directly.  A step of a task runs   *)
(* from one await to the next.  What a server answers is left out, only    *)
(* whether an endpoint settles the check.                                  *)
(***************************************************************************)
EXTENDS Integers, FiniteSets, SequencesExt

CONSTANTS
  Servers,
  Github,       (* the servers with a URL at github.com                     *)
  Tasks,        (* bound: the tasks that may exist together                 *)
  Calls,        (* bound: the calls of check_server in flight               *)
  NoTask,       (* no entry in monitoring_tasks                             *)
  NoServer,     (* no check in this call                                    *)
  Endpoints,    (* bound: the endpoints tried before the base URL (4)       *)
  MaxCache      (* max_cache_size                                           *)

ASSUME HealthAssumption ==
  /\ Github \subseteq Servers /\ Servers # {}
  /\ NoTask \notin Tasks
  /\ NoServer \notin Servers
  /\ Endpoints \in Nat
  /\ MaxCache \in Nat \ {0}

VARIABLES
  running,      (* HealthMonitor.running                                    *)
  stop,         (* the progress of stop(): "no", "waiting", "returned"      *)
  waitedFor,    (* the tasks stop() gathers                                 *)
  monitored,    (* monitoring_tasks                                         *)
  task,         (* the tasks: where each is, and whether it is cancelled    *)
  call,         (* the server each direct check fetches from                *)
  cache,        (* health_cache, the entry used longest ago first           *)
  asked,        (* history: servers a caller had added while running        *)
  left          (* history: entries of monitoring_tasks no task serves since*)
                (* the monitor was not running when they were made or kept  *)

vars == <<running, stop, waitedFor, monitored, task, call, cache, asked, left>>

--------------------------------------------------------------------------------
(* A fetch has so many endpoints still to try; at 0 it asks the base URL    *)
(* or the GitHub API.                                                       *)
FetchPoint == 0 .. Endpoints
FirstPoint(s) == IF s \in Github THEN 0 ELSE Endpoints

Task == [at : {"new", "fetch", "sleep", "done"}, server : Servers,
         point : FetchPoint, cancelled : BOOLEAN, survived : BOOLEAN]
Ended == [at |-> "done", server |-> CHOOSE s \in Servers : TRUE, point |-> 0,
          cancelled |-> FALSE, survived |-> FALSE]

(* fresh: the check is less than a minute old.                              *)
Entry == [server : Servers, fresh : BOOLEAN]

Live(t) == task[t].at # "done"
Unused == {t \in Tasks : ~Live(t) /\ t \notin waitedFor /\ \A s \in Servers : monitored[s] # t}

--------------------------------------------------------------------------------
(* LRUCache                                                                 *)
Holds(c, s) == \E i \in DOMAIN c : c[i].server = s
HoldsFresh(c, s) == \E i \in DOMAIN c : c[i] = [server |-> s, fresh |-> TRUE]

Place(c, s) == CHOOSE i \in DOMAIN c : c[i].server = s
Others(c, s) == IF Holds(c, s) THEN RemoveAt(c, Place(c, s)) ELSE c

(* get: an entry becomes the last one used; one that is over its hour, so   *)
(* not fresh, is deleted.                                                   *)
Touched(c, s) ==
  (IF Holds(c, s) THEN {Append(Others(c, s), c[Place(c, s)])} ELSE {c})
    \cup (IF HoldsFresh(c, s) THEN {} ELSE {Others(c, s)})

(* Mutant of Put: the entry that is already there is not taken out first.    *)
PutTwice(c, s) == Append(c, [server |-> s, fresh |-> TRUE])

Put(c, s) ==
  LET put == Append(Others(c, s), [server |-> s, fresh |-> TRUE])
  IN IF Len(put) > MaxCache THEN Tail(put) ELSE put

--------------------------------------------------------------------------------
Init ==
  /\ running = FALSE
  /\ stop = "no"
  /\ waitedFor = {}
  /\ monitored = [s \in Servers |-> NoTask]
  /\ task = [t \in Tasks |-> Ended]
  /\ call = [c \in Calls |-> NoServer]
  /\ cache = <<>>
  /\ asked = {}
  /\ left = {}

(* start and stop are called in turn, as the lifespan of the API does.      *)
Start ==
  /\ ~running
  /\ stop # "waiting"
  /\ running' = TRUE
  /\ stop' = "no"
  /\ UNCHANGED <<waitedFor, monitored, task, call, cache, asked, left>>

Monitors == {monitored[s] : s \in Servers} \ {NoTask}

(* stop up to gather.                                                       *)
Stop ==
  /\ running
  /\ running' = FALSE
  /\ stop' = "waiting"
  /\ waitedFor' = Monitors
  /\ task' = [t \in Tasks |-> IF t \in Monitors
                              THEN [task[t] EXCEPT !.cancelled = Live(t)] ELSE task[t]]
  /\ asked' = {}
  /\ left' = {s \in Servers : monitored[s] # NoTask}
  /\ UNCHANGED <<monitored, call, cache>>

(* Mutant of StopReturns: nothing is waited for.                            *)
StopReturnsAtOnce ==
  /\ stop = "waiting"
  /\ stop' = "returned"
  /\ waitedFor' = {}
  /\ UNCHANGED <<running, monitored, task, call, cache, asked, left>>

StopReturns ==
  /\ stop = "waiting"
  /\ \A t \in waitedFor : ~Live(t)
  /\ stop' = "returned"
  /\ waitedFor' = {}
  /\ UNCHANGED <<running, monitored, task, call, cache, asked, left>>

CreateTask(s) ==
  LET t == CHOOSE u \in Tasks : u \in Unused
  IN /\ Unused # {}
     /\ monitored' = [monitored EXCEPT ![s] = t]
     /\ task' = [task EXCEPT ![t] = [Ended EXCEPT !.at = "new", !.server = s]]
     /\ left' = IF running THEN left ELSE left \cup {s}

(* Mutant of AddServer: whether the server is monitored is not looked at.   *)
AddServerAgain(s) ==
  /\ CreateTask(s)
  /\ asked' = IF running THEN asked \cup {s} ELSE asked
  /\ UNCHANGED <<running, stop, waitedFor, call, cache>>

(* add_server                                                               *)
AddServer(s) ==
  /\ IF monitored[s] # NoTask
     THEN UNCHANGED <<monitored, task, left>>
     ELSE CreateTask(s)
  /\ asked' = IF running THEN asked \cup {s} ELSE asked
  /\ UNCHANGED <<running, stop, waitedFor, call, cache>>

(* Mutant of Forgotten: a removed server keeps its entry.                   *)
ForgottenNever(s) == monitored

Forgotten(s) == [monitored EXCEPT ![s] = NoTask]

(* remove_server                                                            *)
RemoveServer(s) ==
  /\ monitored[s] # NoTask
  /\ task' = [task EXCEPT ![monitored[s]].cancelled = Live(monitored[s])]
  /\ monitored' = Forgotten(s)
  /\ asked' = asked \ {s}
  /\ left' = left \ {s}
  /\ UNCHANGED <<running, stop, waitedFor, call, cache>>

--------------------------------------------------------------------------------
(* Mutant of GoesOn: the loop of a task does not look at running.           *)
GoesOnAlways == TRUE

GoesOn == running

(* The head of the loop, from which the task goes to its next await: a      *)
(* check younger than a minute is taken from the cache and stored again.    *)
Loop(t) ==
  LET s == task[t].server
  IN IF ~GoesOn
     THEN /\ task' = [task EXCEPT ![t] = Ended]
          /\ cache' = cache
     ELSE IF HoldsFresh(cache, s)
     THEN /\ task' = [task EXCEPT ![t].at = "sleep"]
          /\ cache' = Put(cache, s)
     ELSE /\ task' = [task EXCEPT ![t].at = "fetch", ![t].point = FirstPoint(s)]
          /\ cache' \in Touched(cache, s)

(* The task starts, or its sleep is over.                                   *)
RunTask(t) ==
  /\ task[t].at \in {"new", "sleep"}
  /\ ~task[t].cancelled
  /\ Loop(t)
  /\ UNCHANGED <<running, stop, waitedFor, monitored, call, asked, left>>

(* A cancelled task does not start, and its sleep, the base URL and the     *)
(* GitHub API let the cancellation out.  At any other endpoint a bare       *)
(* except takes it for one more failure.                                    *)
Cancel(t) ==
  /\ Live(t)
  /\ task[t].cancelled
  /\ task' = [task EXCEPT ![t] =
                IF task[t].at = "fetch" /\ task[t].point > 0
                THEN [task[t] EXCEPT !.point = @ - 1, !.cancelled = FALSE, !.survived = TRUE]
                ELSE Ended]
  /\ UNCHANGED <<running, stop, waitedFor, monitored, call, cache, asked, left>>

(* An endpoint answers, fails or times out: the check is settled, stored,   *)
(* and stored once more by the loop, or the next endpoint is tried.         *)
TaskFetches(t) ==
  /\ task[t].at = "fetch"
  /\ ~task[t].cancelled
  /\ \/ /\ task' = [task EXCEPT ![t].at = "sleep", ![t].point = 0]
        /\ cache' = Put(Put(cache, task[t].server), task[t].server)
     \/ /\ task[t].point > 0
        /\ task' = [task EXCEPT ![t].point = @ - 1]
        /\ cache' = cache
  /\ UNCHANGED <<running, stop, waitedFor, monitored, call, asked, left>>

(* GET /servers/{id}/health: check_server, answered from the cache or by a  *)
(* check of its own, whose endpoints nothing interrupts.                    *)
CallCheck(c, s) ==
  /\ call[c] = NoServer
  /\ cache' \in Touched(cache, s)
  /\ call' = IF HoldsFresh(cache, s) THEN call ELSE [call EXCEPT ![c] = s]
  /\ UNCHANGED <<running, stop, waitedFor, monitored, task, asked, left>>

CallFetches(c) ==
  /\ call[c] # NoServer
  /\ call' = [call EXCEPT ![c] = NoServer]
  /\ cache' = Put(cache, call[c])
  /\ UNCHANGED <<running, stop, waitedFor, monitored, task, asked, left>>

(* A minute passes for a cached check.                                      *)
Age(i) ==
  /\ i \in DOMAIN cache
  /\ cache[i].fresh
  /\ cache' = [cache EXCEPT ![i].fresh = FALSE]
  /\ UNCHANGED <<running, stop, waitedFor, monitored, task, call, asked, left>>

TaskStep(t) == RunTask(t) \/ Cancel(t) \/ TaskFetches(t)

Next ==
  \/ Start \/ Stop \/ StopReturns
  \/ \E s \in Servers : AddServer(s) \/ RemoveServer(s)
  \/ \E t \in Tasks : TaskStep(t)
  \/ \E c \in Calls : CallFetches(c) \/ \E s \in Servers : CallCheck(c, s)
  \/ \E i \in 1 .. MaxCache : Age(i)

(* The event loop runs every task that can go on: a fetch ends at its       *)
(* timeout, a sleep at its interval.                                        *)
Spec ==
  /\ Init /\ [][Next]_vars
  /\ WF_vars(StopReturns)
  /\ \A t \in Tasks : WF_vars(TaskStep(t))

--------------------------------------------------------------------------------
(* The cache holds at most max_cache_size checks, one for each server: what *)
(* one of tasks and callers stores never drops another server's check while *)
(* there is room.                                                           *)
CacheFits ==
  /\ Len(cache) <= MaxCache
  /\ \A i, j \in DOMAIN cache : cache[i].server = cache[j].server => i = j

TypeOK ==
  /\ running \in BOOLEAN
  /\ stop \in {"no", "waiting", "returned"}
  /\ waitedFor \subseteq Tasks
  /\ monitored \in [Servers -> Tasks \cup {NoTask}]
  /\ task \in [Tasks -> Task]
  /\ call \in [Calls -> Servers \cup {NoServer}]
  /\ cache \in Seq(Entry) /\ CacheFits
  /\ asked \subseteq Servers
  /\ left \subseteq Servers

(* However additions, removals, stops and restarts interleave, a server is  *)
(* watched by at most one task that was not told to go.  One whose          *)
(* cancellation was swallowed may watch it beside that one.                 *)
OneWatcher ==
  \A t, u \in Tasks :
    /\ Live(t) /\ ~task[t].cancelled /\ ~task[t].survived
    /\ Live(u) /\ ~task[u].cancelled /\ ~task[u].survived
    /\ task[t].server = task[u].server
    => t = u

(* A server added while the monitor runs, and not removed since, is watched *)
(* by the task of its entry: nothing ends that task but its removal and     *)
(* stop.  The entries that a stop left behind are the exception.            *)
AddedIsWatched ==
  \A s \in asked \ left :
    monitored[s] # NoTask /\ Live(monitored[s]) /\ ~task[monitored[s]].cancelled

(* Once stop has returned no task of an entry is at work: one that is there *)
(* was added after the stop began, and ends as soon as it runs.             *)
QuietOnceStopped ==
  stop = "returned" => \A t \in Monitors : task[t].at \in {"new", "done"}

(* stop returns, also when the cancellation of a task was swallowed: that   *)
(* task ends at the head of its loop.                                       *)
StopEnds == stop = "waiting" ~> stop = "returned"
================================================================================
