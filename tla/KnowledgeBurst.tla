----------------------------- MODULE KnowledgeBurst -----------------------------
(***************************************************************************)
(* The programs that fill the knowledge base with analyses of commands     *)
(* (tcp-knowledge-base/scripts): tcp_burst_mode.py, tcp_hybrid_burst.py,   *)
(* tcp_distributed_burst.py and minimal_tcp_deployment.py.                 *)
(*                                                                         *)
(* A program loads the list of the commands known, asks a model about the  *)
(* others from a pool of threads, and writes one file per answer.  A lock  *)
(* guards the counters and the set of known commands; whoever brings the   *)
(* counter to a multiple of SaveEvery rewrites the list while holding it.  *)
(* Every file is truncated first and written then, and the program may     *)
(* stop between any two steps.                                             *)
(***************************************************************************)
EXTENDS Integers, FiniteSets

CONSTANTS
  Commands,
  NoOne,        (* nobody holds the lock                                    *)
  Threads,      (* max_workers                                              *)
  BatchSize,    (* 500 in a burst; 350, the rest left for later, if minimal *)
  SaveEvery,    (* 50 or 100                                                *)
  MaxAttempts   (* max_retries                                              *)

ASSUME BurstAssumption ==
  /\ NoOne \notin Commands
  /\ {Threads, BatchSize, SaveEvery, MaxAttempts} \subseteq Nat \ {0}
  /\ IsFiniteSet(Commands)

VARIABLES
  program,      (* which of the four runs here                              *)
  phase,        (* what its main thread does                                *)
  todo,         (* commands of this run not yet submitted                   *)
  worker,       (* the commands submitted: where the analysis of each is    *)
  attempt,      (* its attempts                                             *)
  lock,         (* the command whose thread holds the lock                  *)
  discovered,   (* discovered_commands                                      *)
  completed, failed,
  list,         (* discovered_commands.json                                 *)
  analysis,     (* <command>_analysis.json                                  *)
  planned,      (* history: commands to analyse in this run                 *)
  unsaved,      (* history: saves of a thread that raised in this run       *)
  dropped,      (* history: commands whose thread raised in this run        *)
  kept          (* history: all commands any save has put into the list     *)

counters == <<completed, failed>>
history == <<planned, unsaved, dropped, kept>>
vars == <<program, phase, todo, worker, attempt, lock, discovered, counters,
          list, analysis, history>>

--------------------------------------------------------------------------------
Programs == {"burst", "hybrid", "distributed", "minimal"}
Readable(s) == [ok |-> TRUE, set |-> s]
Torn == [ok |-> FALSE, set |-> {}]

Busy ==
  {c \in Commands :
     worker[c] \in {"ask", "open", "write", "record", "save", "dump", "fail"}}
Goto(c, label) == worker' = [worker EXCEPT ![c] = label]

(* These programs count a failed write; the hybrid one lets it end the      *)
(* thread, and the exception stays in a future nobody asks.                 *)
CountsErrors == program \in {"burst", "distributed"}

(* burst and minimal ask again when they are told of a rate limit; hybrid   *)
(* asks its second engine.                                                  *)
Attempts == IF program = "distributed" THEN 1
            ELSE IF program = "hybrid" THEN 2 ELSE MaxAttempts

Idle == [c \in Commands |-> "none"]

--------------------------------------------------------------------------------
Init ==
  /\ program \in Programs
  /\ phase = "down"
  /\ todo = {}
  /\ worker = Idle
  /\ attempt = [c \in Commands |-> 0]
  /\ lock = NoOne
  /\ discovered = {}
  /\ completed = 0 /\ failed = 0
  /\ list = Readable({})
  /\ analysis = [c \in Commands |-> "none"]
  /\ planned = {} /\ unsaved = 0 /\ dropped = {} /\ kept = {}

(* Mutant of Loaded: a list that cannot be read counts as an empty one.     *)
LoadedOrEmpty == TRUE

(* load_discovered_commands catches nothing: a torn list ends the program.  *)
Loaded == list.ok

(* __init__.  A list that is missing is an empty one.                       *)
Start ==
  /\ phase = "down"
  /\ Loaded
  /\ phase' = "plan"
  /\ discovered' = list.set
  /\ completed' = 0 /\ failed' = 0
  /\ planned' = {} /\ unsaved' = 0 /\ dropped' = {}
  /\ UNCHANGED <<program, todo, worker, attempt, lock, list, analysis, kept>>

(* Somebody takes a torn list away.                                         *)
Repair ==
  /\ phase = "down"
  /\ ~list.ok
  /\ list' = Readable({})
  /\ kept' = {}
  /\ UNCHANGED <<program, phase, todo, worker, attempt, lock, discovered, counters,
                 analysis, planned, unsaved, dropped>>

Portions(s) ==
  LET size == IF Cardinality(s) < BatchSize THEN Cardinality(s) ELSE BatchSize
  IN {p \in SUBSET s : Cardinality(p) = size}

(* The commands not known yet; the minimal program takes some of them.      *)
Plan ==
  /\ phase = "plan"
  /\ LET new == Commands \ discovered
     IN \E chosen \in IF program = "minimal" THEN Portions(new) ELSE {new} :
          /\ todo' = chosen
          /\ planned' = chosen
          /\ phase' = IF new = {} THEN "over" ELSE "batch"
  /\ UNCHANGED <<program, worker, attempt, lock, discovered, counters, list, analysis,
                 unsaved, dropped, kept>>

(* A batch goes to the pool: BatchSize commands in a burst, else all.       *)
Submit ==
  /\ phase = "batch"
  /\ \E b \in IF program = "burst" THEN Portions(todo) ELSE {todo} :
       /\ todo' = todo \ b
       /\ worker' = [c \in Commands |-> IF c \in b THEN "queued" ELSE "none"]
  /\ attempt' = [c \in Commands |-> 0]
  /\ phase' = "pool"
  /\ UNCHANGED <<program, lock, discovered, counters, list, analysis, history>>

--------------------------------------------------------------------------------
(* analyze_command in a thread of the pool.                                 *)
Take(c) ==
  /\ worker[c] = "queued"
  /\ Cardinality(Busy) < Threads
  /\ Goto(c, "ask")
  /\ UNCHANGED <<program, phase, todo, attempt, lock, discovered, counters, list,
                 analysis, history>>

(* The model answers, or it does not, which a retry or the second engine    *)
(* may make good.                                                           *)
Answer(c) ==
  /\ worker[c] = "ask"
  /\ \/ Goto(c, "open") /\ UNCHANGED attempt
     \/ /\ attempt[c] + 1 < Attempts
        /\ attempt' = [attempt EXCEPT ![c] = @ + 1]
        /\ UNCHANGED worker
     \/ Goto(c, "fail") /\ UNCHANGED attempt
  /\ UNCHANGED <<program, phase, todo, lock, discovered, counters, list, analysis,
                 history>>

(* Mutant of Opened: a file that is there is taken for a whole one.         *)
OpenedKept(c) == analysis[c] # "none"

(* open(analysis_file, "w") and json.dump.                                  *)
Opened(c) == FALSE

OpenFile(c) ==
  /\ worker[c] = "open"
  /\ analysis' = [analysis EXCEPT ![c] = "torn"]
  /\ Goto(c, IF Opened(c) THEN "record" ELSE "write")
  /\ UNCHANGED <<program, phase, todo, attempt, lock, discovered, counters, list, history>>

WriteFile(c) ==
  /\ worker[c] = "write"
  /\ analysis' = [analysis EXCEPT ![c] = "whole"]
  /\ Goto(c, "record")
  /\ UNCHANGED <<program, phase, todo, attempt, lock, discovered, counters, list, history>>

(* The file cannot be opened or written.                                    *)
WriteFails(c) ==
  /\ worker[c] \in {"open", "write"}
  /\ Goto(c, IF program = "hybrid" THEN "done" ELSE "fail")
  /\ dropped' = dropped \cup (IF program = "hybrid" THEN {c} ELSE {})
  /\ UNCHANGED <<program, phase, todo, attempt, lock, discovered, counters, list,
                 analysis, planned, unsaved, kept>>

(* burst and minimal take an error that speaks of a rate for a rate limit   *)
(* and ask again: that of an open quotes the name of the file, and with it  *)
(* the command.  No error of the list's save does.                          *)
OpenFailsAtRate(c) ==
  /\ worker[c] = "open"
  /\ program \in {"burst", "minimal"}
  /\ attempt[c] + 1 < Attempts
  /\ attempt' = [attempt EXCEPT ![c] = @ + 1]
  /\ Goto(c, "ask")
  /\ UNCHANGED <<program, phase, todo, lock, discovered, counters, list, analysis,
                 history>>

(* The lock is taken for the counters and the set, and kept if the list is  *)
(* to be saved.  In the minimal program the main thread adds the command,   *)
(* and nothing is counted.                                                  *)
Record(c) ==
  /\ worker[c] = "record"
  /\ lock = NoOne
  /\ discovered' = discovered \cup {c}
  /\ IF program = "minimal"
     THEN Goto(c, "done") /\ UNCHANGED <<lock, completed>>
     ELSE /\ completed' = completed + 1
          /\ IF (completed + 1) % SaveEvery = 0
             THEN lock' = c /\ Goto(c, "save")
             ELSE Goto(c, "done") /\ UNCHANGED lock
  /\ UNCHANGED <<program, phase, todo, attempt, failed, list, analysis, history>>

(* open(discovered_file, "w") and json.dump, under the lock.                *)
EmptyList(c) ==
  /\ worker[c] = "save"
  /\ list' = Torn
  /\ Goto(c, "dump")
  /\ UNCHANGED <<program, phase, todo, attempt, lock, discovered, counters, analysis,
                 history>>

Save(c) ==
  /\ worker[c] = "dump"
  /\ list' = Readable(discovered)
  /\ kept' = kept \cup discovered
  /\ lock' = NoOne
  /\ Goto(c, "done")
  /\ UNCHANGED <<program, phase, todo, attempt, discovered, counters, analysis, planned,
                 unsaved, dropped>>

(* Mutant of Released: the lock is only given back when the save succeeds.  *)
ReleasedNever == lock

Released == NoOne

(* The list cannot be opened, and stays as it is, or written; the lock is   *)
(* given back, and burst and distributed count the command as failed        *)
(* although it is known.                                                    *)
SaveFails(c) ==
  /\ worker[c] \in {"save", "dump"}
  /\ lock' = Released
  /\ unsaved' = unsaved + 1
  /\ Goto(c, IF CountsErrors THEN "fail" ELSE "done")
  /\ UNCHANGED <<program, phase, todo, attempt, discovered, counters, list, analysis,
                 planned, dropped, kept>>

(* Mutant of FailureCounted: failures are not counted under the lock.       *)
FailureCountedNot == failed

FailureCounted == failed + 1

Fail(c) ==
  /\ worker[c] = "fail"
  /\ lock = NoOne
  /\ failed' = IF program = "minimal" THEN failed ELSE FailureCounted
  /\ Goto(c, "done")
  /\ UNCHANGED <<program, phase, todo, attempt, lock, discovered, completed, list,
                 analysis, history>>

--------------------------------------------------------------------------------
(* as_completed is through.                                                 *)
BatchDone ==
  /\ phase = "pool"
  /\ \A c \in Commands : worker[c] \in {"none", "done"}
  /\ worker' = Idle
  /\ phase' = IF todo = {} THEN "final" ELSE "batch"
  /\ UNCHANGED <<program, todo, attempt, lock, discovered, counters, list, analysis, history>>

(* The final save.                                                          *)
OpenList ==
  /\ phase = "final"
  /\ phase' = "dump"
  /\ list' = Torn
  /\ UNCHANGED <<program, todo, worker, attempt, lock, discovered, counters, analysis, history>>

DumpList ==
  /\ phase = "dump"
  /\ phase' = "over"
  /\ list' = Readable(discovered)
  /\ kept' = kept \cup discovered
  /\ UNCHANGED <<program, todo, worker, attempt, lock, discovered, counters, analysis,
                 planned, unsaved, dropped>>

(* The minimal program goes on when its save raises, before or after the    *)
(* list was emptied; the others end.                                        *)
FinalSaveFails ==
  /\ program = "minimal"
  /\ phase \in {"final", "dump"}
  /\ phase' = "over"
  /\ UNCHANGED <<program, todo, worker, attempt, lock, discovered, counters, list,
                 analysis, history>>

(* The minimal program looks for new commands again a minute later.         *)
Again ==
  /\ phase = "over"
  /\ program = "minimal"
  /\ phase' = "plan"
  /\ UNCHANGED <<program, todo, worker, attempt, lock, discovered, counters, list,
                 analysis, history>>

(* The program ends, is stopped, or fails in its final save.                *)
End ==
  /\ phase # "down"
  /\ phase' = "down"
  /\ todo' = {}
  /\ worker' = Idle
  /\ attempt' = [c \in Commands |-> 0]
  /\ lock' = NoOne
  /\ discovered' = {}
  /\ UNCHANGED <<program, counters, list, analysis, history>>

ThreadStep(c) ==
  \/ Take(c) \/ Answer(c) \/ OpenFile(c) \/ WriteFile(c) \/ WriteFails(c)
  \/ OpenFailsAtRate(c) \/ Record(c) \/ EmptyList(c) \/ Save(c) \/ SaveFails(c) \/ Fail(c)

MainStep == Plan \/ Submit \/ BatchDone \/ OpenList \/ DumpList \/ FinalSaveFails

Next ==
  \/ Start \/ Repair \/ MainStep \/ Again \/ End
  \/ \E c \in Commands : ThreadStep(c)

(* Threads run; a model answers or its call times out.                      *)
Spec ==
  /\ Init /\ [][Next]_vars
  /\ WF_vars(MainStep)
  /\ \A c \in Commands : WF_vars(ThreadStep(c))

--------------------------------------------------------------------------------
TypeOK ==
  /\ program \in Programs
  /\ phase \in {"down", "plan", "batch", "pool", "final", "dump", "over"}
  /\ todo \subseteq Commands
  /\ worker \in [Commands -> {"none", "queued", "ask", "open", "write", "record",
                              "save", "dump", "fail", "done"}]
  /\ attempt \in [Commands -> 0 .. MaxAttempts + 1]
  /\ lock \in Commands \cup {NoOne}
  /\ discovered \subseteq Commands
  /\ completed \in Nat /\ failed \in Nat
  /\ list \in {Readable(s) : s \in SUBSET Commands} \cup {Torn}
  /\ analysis \in [Commands -> {"none", "torn", "whole"}]
  /\ planned \subseteq Commands
  /\ unsaved \in Nat
  /\ dropped \subseteq Commands
  /\ kept \subseteq Commands

(* No command is known, in memory or in the list, without its whole         *)
(* analysis on disk: whatever stops the program, a command that counts as   *)
(* analysed never has to be analysed again.                                 *)
KnownAreAnalysed ==
  \A c \in discovered \cup list.set : analysis[c] = "whole"

(* No save loses a command of any earlier one: whatever is stopped, torn    *)
(* and started again, a list that can be read holds all that was ever       *)
(* saved, unless somebody took it away.                                     *)
ListKeepsAll == list.ok => kept \subseteq list.set

(* When a run is over every command was counted once, as completed or as    *)
(* failed.  A save that raised in a thread counts its command twice, and in *)
(* the hybrid program a write that raised counts it not at all.             *)
AllCounted ==
  phase = "over" /\ program # "minimal" =>
    completed + failed + Cardinality(dropped) =
      Cardinality(planned) + (IF CountsErrors THEN unsaved ELSE 0)

(* A run comes to its end, or the program is stopped: whatever writes and   *)
(* saves fail, no thread waits for ever for the lock.                       *)
RunEnds == phase = "pool" ~> phase \in {"over", "down"}
================================================================================
