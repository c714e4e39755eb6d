------------------------------- MODULE BatchHealth -------------------------------
(***************************************************************************)
(* The batch monitor of the MCP registry                                   *)
(* (mcp-registry/monitor/batch_health.py): one loop that checks a snapshot *)
(* of the servers in batches, all checks of a batch at once, at most       *)
(* MaxConcurrent of them past a semaphore, and stores the results of a     *)
(* batch when its last check has ended.  Servers come and go meanwhile.    *)
(* A step of a task runs from one await to the next.                       *)
(***************************************************************************)
EXTENDS Integers, Sequences, SequencesExt

CONSTANTS
  Servers,
  BatchSize,      (* batch_size                                             *)
  MaxConcurrent   (* max_concurrent                                         *)

VARIABLES
  running,   (* BatchHealthMonitor.running                                  *)
  loop,      (* _monitor_loop: "none", "new", "checking", "sleeping"        *)
  cancelled, (* stop has cancelled it                                       *)
  stopping,  (* stop waits for it                                           *)
  servers,   (* the keys of servers, in their order                         *)
  rest,      (* servers_list, from the batch that is checked on             *)
  check,     (* the check of each server of the batch                       *)
  permits,   (* the value of the semaphore                                  *)
  results,   (* the servers with an entry in health_results                 *)
  late       (* history: servers removed while a round had still to store   *)
             (* their result, and not added again                           *)

vars == <<running, loop, cancelled, stopping, servers, rest, check, permits,
          results, late>>

--------------------------------------------------------------------------------
NoCheck == [s \in Servers |-> "none"]

(* The slices of servers_list are taken from its front, one after another.  *)
Batch(list) == SubSeq(list, 1, IF Len(list) < BatchSize THEN Len(list) ELSE BatchSize)

Begin(list) ==
  /\ rest' = list
  /\ check' = [s \in Servers |-> IF s \in ToSet(Batch(list)) THEN "new" ELSE "none"]
  /\ loop' = IF Batch(list) = <<>> THEN "sleeping" ELSE "checking"

--------------------------------------------------------------------------------
Init ==
  /\ running = FALSE
  /\ loop = "none"
  /\ cancelled = FALSE
  /\ stopping = FALSE
  /\ servers = <<>>
  /\ rest = <<>>
  /\ check = NoCheck
  /\ permits = MaxConcurrent
  /\ results = {}
  /\ late = {}

(* start and stop are called in turn.                                       *)
Start ==
  /\ ~running /\ ~stopping
  /\ running' = TRUE
  /\ loop' = "new"
  /\ UNCHANGED <<cancelled, stopping, servers, rest, check, permits, results, late>>

(* stop up to its await: the cancellation goes on to the checks of the      *)
(* batch.                                                                   *)
Stop ==
  /\ running
  /\ running' = FALSE
  /\ stopping' = TRUE
  /\ cancelled' = TRUE
  /\ UNCHANGED <<loop, servers, rest, check, permits, results, late>>

StopReturns ==
  /\ stopping /\ loop = "none"
  /\ stopping' = FALSE
  /\ UNCHANGED <<running, loop, cancelled, servers, rest, check, permits, results, late>>

AddServer(s) ==
  /\ s \notin ToSet(servers)
  /\ servers' = Append(servers, s)
  /\ late' = late \ {s}
  /\ UNCHANGED <<running, loop, cancelled, stopping, rest, check, permits, results>>

(* Mutant of Forgotten: the result of a removed server is kept.             *)
ForgottenNever(s) == results

Forgotten(s) == results \ {s}

RemoveServer(s) ==
  /\ s \in ToSet(servers)
  /\ servers' = RemoveAt(servers, CHOOSE i \in DOMAIN servers : servers[i] = s)
  /\ results' = Forgotten(s)
  /\ late' = IF s \in ToSet(rest) THEN late \cup {s} ELSE late
  /\ UNCHANGED <<running, loop, cancelled, stopping, rest, check, permits>>

--------------------------------------------------------------------------------
(* The head of _monitor_loop and of _check_all_servers.                     *)
BeginRound ==
  /\ loop \in {"new", "sleeping"} /\ ~cancelled
  /\ Begin(servers)
  /\ UNCHANGED <<running, cancelled, stopping, servers, permits, results, late>>

(* A check passes the semaphore.                                            *)
Enter(s) ==
  /\ check[s] = "new" /\ ~cancelled
  /\ permits > 0
  /\ permits' = permits - 1
  /\ check' = [check EXCEPT ![s] = "asking"]
  /\ UNCHANGED <<running, loop, cancelled, stopping, servers, rest, results, late>>

(* Mutant of Released: a cancelled check keeps its place.                   *)
ReleasedUnlessCancelled(s) ==
  permits + (IF check[s] = "asking" /\ ~cancelled THEN 1 ELSE 0)

(* async with gives the place back however the check ends.                  *)
Released(s) == permits + (IF check[s] = "asking" THEN 1 ELSE 0)

(* The server answers, fails or times out; or the check is cancelled, also  *)
(* while it waits for the semaphore.                                        *)
EndCheck(s) ==
  /\ check[s] = "asking" \/ (check[s] = "new" /\ cancelled)
  /\ check' = [check EXCEPT ![s] = "ended"]
  /\ permits' = Released(s)
  /\ UNCHANGED <<running, loop, cancelled, stopping, servers, rest, results, late>>

BatchEnded == \A s \in Servers : check[s] \in {"none", "ended"}

(* gather returns: the results of the batch are stored, whether its servers *)
(* are still there or not.                                                  *)
StoreBatch ==
  /\ loop = "checking" /\ ~cancelled
  /\ BatchEnded
  /\ results' = results \cup ToSet(Batch(rest))
  /\ Begin(SubSeq(rest, Len(Batch(rest)) + 1, Len(rest)))
  /\ UNCHANGED <<running, cancelled, stopping, servers, permits, late>>

(* The loop is cancelled before it starts, in its sleep, or in gather, once *)
(* all checks have ended; it stores nothing then.                           *)
LoopCancelled ==
  /\ cancelled /\ BatchEnded
  /\ loop' = "none"
  /\ cancelled' = FALSE
  /\ rest' = <<>>
  /\ check' = NoCheck
  /\ UNCHANGED <<running, stopping, servers, permits, results, late>>

Next ==
  \/ Start \/ Stop \/ StopReturns
  \/ \E s \in Servers : AddServer(s) \/ RemoveServer(s)
  \/ BeginRound \/ StoreBatch \/ LoopCancelled
  \/ \E s \in Servers : Enter(s) \/ EndCheck(s)

Loop == BeginRound \/ StoreBatch \/ LoopCancelled
Check(s) == Enter(s) \/ EndCheck(s)

(* The event loop runs every task that can go on: a request ends at its     *)
(* timeout of 5 seconds, a sleep at its interval.  Asyncio wakes those that *)
(* wait for the semaphore in their order.                                   *)
Spec ==
  /\ Init /\ [][Next]_vars
  /\ WF_vars(Loop)
  /\ \A s \in Servers : WF_vars(Check(s))
--------------------------------------------------------------------------------
(* The monitor keeps checking every server it has, again and again, however *)
(* servers come and go, the last batch of a round falls short, checks wait  *)
(* for each other and earlier runs were stopped in the middle of a batch.   *)
EveryServerChecked ==
  \A s \in Servers :
    running /\ s \in ToSet(servers) ~>
      check[s] = "ended" \/ s \notin ToSet(servers) \/ ~running

(* A result without a server is left only by a removal that a round under   *)
(* way did not see: a removal between two rounds leaves nothing behind, and *)
(* no later round stores a result of a removed server.                      *)
OrphansWereInTheRound == results \subseteq ToSet(servers) \cup late
================================================================================
