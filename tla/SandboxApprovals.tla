--------------------------- MODULE SandboxApprovals ---------------------------
(***************************************************************************)
(* The approvals of the tool sandbox: tcp/security/sandbox_manager.py with *)
(* the denial of human_approval_interface.py.                              *)
(*                                                                         *)
(* Several managers, one per process, work on one sandbox directory.  Each *)
(* loads approved_tools.json once, when it starts, and keeps the map in    *)
(* memory; a decision changes the memory of the manager that takes it and  *)
(* then rewrites the whole file from that memory, by truncating it first.  *)
(* Requests are files of their own, one per tool, that a later request for *)
(* the same tool overwrites.  A process may stop between any two of these  *)
(* steps.                                                                  *)
(*                                                                         *)
(* A tool is approved as it was requested, so a map holds for each tool    *)
(* the number of the request it was approved from, or None.                *)
(***************************************************************************)
EXTENDS Integers, FiniteSets

CONSTANTS
  Managers,     (* TCPSandboxManager objects on one directory               *)
  Tools,
  MaxRequests   (* bound: requests made for each tool                       *)

ASSUME SandboxAssumption == Tools # {} /\ MaxRequests \in [Tools -> Nat]

VARIABLES
  requested,    (* number of requests made for each tool                    *)
  requestFile,  (* approval_requests/<tool>_approval.json                   *)
  file,         (* approved_tools/approved_tools.json                       *)
  quarantine,   (* the tools with a quarantine/<tool>_revoked.json          *)
  memory,       (* approved_tools of each manager                           *)
  job,          (* what each manager is doing                               *)
  granted,      (* history: the requests some human approved                *)
  decided,      (* history: what the decisions saved so far amount to       *)
  behind,       (* history: tools a manager's memory may be wrong about     *)
  lost          (* history: tools the file may be wrong about               *)

vars == <<requested, requestFile, file, quarantine, memory, job,
          granted, decided, behind, lost>>

--------------------------------------------------------------------------------
None == 0
Request == UNION {1 .. MaxRequests[t] : t \in Tools}
Map == [Tools -> Request \cup {None}]
NoTools == [t \in Tools |-> None]

(* A file that was truncated, or in which one save wrote over another, does *)
(* not parse.                                                               *)
Readable(m) == [ok |-> TRUE, map |-> m]
Torn == [ok |-> FALSE, map |-> NoTools]
File == {Readable(m) : m \in Map} \cup {Torn}

(* step: "down", "idle", "save" (about to open the file), "dump" (it is     *)
(* open and empty), "move" (about to move the request), "unlink" (about to  *)
(* remove a denied one).  mixed: the file was written by another manager    *)
(* since it was opened.                                                     *)
Steps == {"down", "idle", "save", "dump", "move", "unlink"}
NoJob == [step |-> "idle", tool |-> CHOOSE t \in Tools : TRUE, mixed |-> FALSE]
Job == [step : Steps, tool : Tools, mixed : BOOLEAN]

Down == [NoJob EXCEPT !.step = "down"]
At(m, step) == job[m].step = step

(* _load_approved_tools: a file that cannot be read leaves the map empty,   *)
(* an entry without its binary is left out.                                 *)
Loaded(binaries) ==
  IF file.ok
  THEN [t \in Tools |-> IF t \in binaries THEN file.map[t] ELSE None]
  ELSE NoTools

--------------------------------------------------------------------------------
Init ==
  /\ requested = [t \in Tools |-> 0]
  /\ requestFile = NoTools
  /\ file = Readable(NoTools)
  /\ quarantine = {}
  /\ memory = [m \in Managers |-> NoTools]
  /\ job = [m \in Managers |-> Down]
  /\ granted = {}
  /\ decided = NoTools
  /\ behind = [m \in Managers |-> {}]
  /\ lost = {}

(* __init__.  binaries: the tools whose binary_path exists at that moment.  *)
Start(m) ==
  /\ At(m, "down")
  /\ job' = [job EXCEPT ![m] = NoJob]
  /\ \E binaries \in SUBSET Tools :
       /\ memory' = [memory EXCEPT ![m] = Loaded(binaries)]
       /\ behind' = [behind EXCEPT
                       ![m] = IF file.ok THEN lost \cup (Tools \ binaries) ELSE Tools]
  /\ UNCHANGED <<requested, requestFile, file, quarantine, granted,
                 decided, lost>>

(* A manager leaves what it does for `next`.  If it was writing the map,    *)
(* part of it may stand in the file, over what another manager wrote there  *)
(* meanwhile or under what one has still to write.                          *)
LeftFor(m, next) ==
  \/ job' = [job EXCEPT ![m] = next] /\ UNCHANGED file
  \/ /\ At(m, "dump")
     /\ file' = Torn
     /\ job' = [n \in Managers |->
                  IF n = m THEN next
                  ELSE IF At(n, "dump") THEN [job[n] EXCEPT !.mixed = TRUE] ELSE job[n]]

Stop(m) ==
  /\ ~At(m, "down")
  /\ LeftFor(m, Down)
  /\ memory' = [memory EXCEPT ![m] = NoTools]
  /\ UNCHANGED <<requested, requestFile, quarantine, granted, decided, behind, lost>>

(* request_tool_approval: whatever stood in the request file is overwritten.*)
RequestApproval(m, t) ==
  /\ At(m, "idle")
  /\ requested[t] < MaxRequests[t]
  /\ requested' = [requested EXCEPT ![t] = @ + 1]
  /\ requestFile' = [requestFile EXCEPT ![t] = requested'[t]]
  /\ UNCHANGED <<file, quarantine, memory, job, granted, decided,
                 behind, lost>>

(* approve_tool up to the save: the request is read from its file again.    *)
Approve(m, t) ==
  /\ At(m, "idle")
  /\ requestFile[t] # None
  /\ memory' = [memory EXCEPT ![m][t] = requestFile[t]]
  /\ granted' = granted \cup {<<t, requestFile[t]>>}
  /\ job' = [job EXCEPT ![m] = [step |-> "save", tool |-> t, mixed |-> FALSE]]
  /\ UNCHANGED <<requested, requestFile, file, quarantine, decided,
                 behind, lost>>

(* revoke_tool_approval.  The record of the revocation, made with asdict,   *)
(* holds an enumeration member and bytes, so json.dump always raises in the *)
(* middle of the record: the file stands, the approval stays as it was.     *)
Revoke(m, t) ==
  /\ At(m, "idle")
  /\ memory[m][t] # None
  /\ quarantine' = quarantine \cup {t}
  /\ UNCHANGED <<requested, requestFile, file, memory, job, granted, decided,
                 behind, lost>>

(* _save_approved_tools: open(approved_file, "w") ...                       *)
Truncate(m) ==
  /\ At(m, "save")
  /\ file' = Torn
  /\ job' = [n \in Managers |-> IF n = m THEN [job[m] EXCEPT !.step = "dump"]
                                         ELSE [job[n] EXCEPT !.mixed = FALSE]]
  /\ UNCHANGED <<requested, requestFile, quarantine, memory, granted,
                 decided, behind, lost>>

(* Mutants of Rewritten: only the tool decided on is written; every pending *)
(* request goes with it.                                                    *)
RewrittenAlone(m) == [NoTools EXCEPT ![job[m].tool] = memory[m][job[m].tool]]
RewrittenAll(m) ==
  [t \in Tools |-> IF memory[m][t] = None THEN requestFile[t] ELSE memory[m][t]]

Rewritten(m) == memory[m]

(* ... and json.dump.  When another manager wrote its map in between, this  *)
(* one is written over it from the start: what is left of a longer one      *)
(* makes the file unreadable.                                               *)
Dump(m) ==
  LET t == job[m].tool
      others == {n \in Managers \ {m} : At(n, "dump")}
  IN /\ At(m, "dump")
     /\ file' \in {Readable(Rewritten(m))} \cup (IF job[m].mixed THEN {Torn} ELSE {})
     /\ job' = [n \in Managers |->
                  IF n = m THEN [job[m] EXCEPT !.step = "move"]
                  ELSE IF n \in others /\ Rewritten(m) # NoTools
                       THEN [job[n] EXCEPT !.mixed = TRUE] ELSE job[n]]
     /\ decided' = [decided EXCEPT ![t] = memory[m][t]]
     /\ behind' = [n \in Managers |-> IF n = m THEN behind[m] \ {t} ELSE behind[n] \cup {t}]
     /\ lost' = behind[m] \ {t}
     /\ UNCHANGED <<requested, requestFile, quarantine, memory, granted>>

(* The file cannot be opened, or not be written to the end: the exception   *)
(* reaches whoever decided, and the manager keeps its changed memory.       *)
SaveFails(m) ==
  /\ job[m].step \in {"save", "dump"}
  /\ LeftFor(m, NoJob)
  /\ behind' = [behind EXCEPT ![m] = @ \cup {job[m].tool}]
  /\ UNCHANGED <<requested, requestFile, quarantine, memory, granted, decided, lost>>

(* shutil.move to approved_tools/requests.  A request that is gone makes    *)
(* the move raise after the approval took effect.                           *)
MoveRequest(m) ==
  /\ At(m, "move")
  /\ requestFile' = [requestFile EXCEPT ![job[m].tool] = None]
  /\ job' = [job EXCEPT ![m] = NoJob]
  /\ UNCHANGED <<requested, file, quarantine, memory, granted, decided,
                 behind, lost>>

(* _deny_tool_request: the record of the denial is written, then the        *)
(* request is removed.  Nothing approved changes.                           *)
Deny(m, t) ==
  /\ At(m, "idle")
  /\ requestFile[t] # None
  /\ job' = [job EXCEPT ![m] = [step |-> "unlink", tool |-> t, mixed |-> FALSE]]
  /\ UNCHANGED <<requested, requestFile, file, quarantine, memory,
                 granted, decided, behind, lost>>

Unlink(m) ==
  /\ At(m, "unlink")
  /\ requestFile' = [requestFile EXCEPT ![job[m].tool] = None]
  /\ job' = [job EXCEPT ![m] = NoJob]
  /\ UNCHANGED <<requested, file, quarantine, memory, granted, decided,
                 behind, lost>>

Next ==
  \E m \in Managers :
       \/ Start(m) \/ Stop(m) \/ Truncate(m) \/ Dump(m) \/ SaveFails(m)
       \/ MoveRequest(m) \/ Unlink(m)
       \/ \E t \in Tools : RequestApproval(m, t) \/ Approve(m, t) \/ Revoke(m, t) \/ Deny(m, t)

Spec == Init /\ [][Next]_vars

--------------------------------------------------------------------------------
TypeOK ==
  /\ requested \in [Tools -> Nat]
  /\ requestFile \in Map
  /\ file \in File
  /\ quarantine \subseteq Tools
  /\ memory \in [Managers -> Map]
  /\ job \in [Managers -> Job]
  /\ granted \subseteq Tools \X Request
  /\ decided \in Map
  /\ behind \in [Managers -> SUBSET Tools]
  /\ lost \subseteq Tools

(* "Whitelist-only approach (deny by default)": whatever stops, is torn or  *)
(* is overwritten, no manager holds and no file gives a tool an approval    *)
(* that nobody took: each goes back to a request read by approve_tool.      *)
Granted(map) == \A t \in Tools : map[t] # None => <<t, map[t]>> \in granted

OnlyGranted == Granted(file.map) /\ \A m \in Managers : Granted(memory[m])

(* A saved decision is only lost to a writer that did not know of it: one   *)
(* that started before another manager's decision, or on a file it could    *)
(* not read, or without the binary of the tool, or whose own save failed.   *)
(* All other managers hold in memory, and the file holds, what was decided. *)
Deciding(m, t) == job[m].step \in {"save", "dump"} /\ job[m].tool = t

MemoryKept ==
  \A m \in Managers, t \in Tools :
    ~At(m, "down") /\ t \notin behind[m] /\ ~Deciding(m, t) => memory[m][t] = decided[t]

FileKept == file.ok => \A t \in Tools \ lost : file.map[t] = decided[t]

DecisionsKept == MemoryKept /\ FileKept

(* "Tools can be revoked at any time": a tool that goes to quarantine is     *)
(* taken from the manager that was told to revoke it.                       *)
RevokedIsTaken ==
  [][\A t \in quarantine' \ quarantine :
       \E m \in Managers : memory[m][t] # None /\ memory'[m][t] = None]_vars
================================================================================
