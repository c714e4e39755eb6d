------------------------------ MODULE ServerStore ------------------------------
(***************************************************************************)
(* The file-based store of the MCP registry (mcp-registry/api/database.py) *)
(* under the requests that write to it, the verifications that follow them *)
(* and the start and shutdown of the service (mcp-registry/api/server.py). *)
(* All of these run on one event loop and share one asyncio.Lock, which the*)
(* task that holds it cannot take again.  A server stands for its name.    *)
(***************************************************************************)
CONSTANTS
  Servers,
  Requests,     (* the requests that may be in flight together              *)
  NoOne         (* lock: not held; not a request                            *)

VARIABLES
  service,      (* "up", "closing" (in its last save) or "down"             *)
  servers,      (* Database.servers, in memory                              *)
  file,         (* servers.json: whether it parses, and what it then holds  *)
  lock,         (* who holds Database.lock                                  *)
  request,      (* the operation and the server of each request             *)
  pc            (* where each request, or its verification, is              *)

vars == <<service, servers, file, lock, request, pc>>

--------------------------------------------------------------------------------
Operations == {"register", "update", "delete", "verify"}
Asked == [Requests -> [op : Operations, server : Servers]]

Torn == [ok |-> FALSE, set |-> {}]
Readable(s) == [ok |-> TRUE, set |-> s]

Goto(r, label) == pc' = [pc EXCEPT ![r] = label]

Idle == [r \in Requests |-> "idle"]

(* A file that does not exist loads as an empty one.                        *)
Init ==
  /\ service = "down"
  /\ file \in {Readable(s) : s \in SUBSET Servers}
  /\ servers = {}
  /\ lock = NoOne
  /\ request \in Asked
  /\ pc = Idle

(* load_data: a file that does not parse is logged and taken as empty.      *)
Startup ==
  /\ service = "down"
  /\ service' = "up"
  /\ servers' = file.set
  /\ lock' = NoOne
  /\ request' \in Asked
  /\ pc' = Idle
  /\ UNCHANGED file

(* The lock was free, and nobody waited for it: who comes to it now takes it*)
(* in the step in which he comes.                                           *)
NobodyFirst == lock = NoOne => \A q \in Requests : pc[q] # "acquire"

(* A name that is taken cannot be registered; only a known server can be    *)
(* updated, deleted or verified, which is answered at once.                 *)
Arrive(r) ==
  /\ service = "up"
  /\ pc[r] = "idle"
  /\ NobodyFirst
  /\ LET known == request[r].server \in servers
         accepted == known <=> request[r].op # "register"
     IN Goto(r, IF ~accepted THEN "over"
                ELSE IF request[r].op = "verify" THEN "answered" ELSE "acquire")
  /\ UNCHANGED <<service, servers, file, lock, request>>

(* The answer goes out; all but a deletion are followed by a verification.  *)
Replied(r) ==
  Goto(r, IF request[r].op \in {"register", "update"} THEN "answered" ELSE "over")

(* create_server, update_server and delete_server up to save_data.          *)
Change(r) ==
  /\ pc[r] = "acquire"
  /\ lock = NoOne
  /\ LET s == request[r].server
     IN IF request[r].op = "delete"
        THEN /\ servers' = servers \ {s}
             /\ lock' = IF s \in servers THEN r ELSE NoOne
             /\ IF s \in servers THEN Goto(r, "save") ELSE Replied(r)
        ELSE /\ servers' = servers \cup {s}
             /\ lock' = r
             /\ Goto(r, "save")
  /\ UNCHANGED <<service, file, request>>

(* save_data asks for the lock again, and opens the file, which empties it, *)
(* unless it cannot be opened.                                              *)
EnterSave(r) ==
  /\ pc[r] = "save"
  /\ lock = NoOne
  /\ lock' = r
  /\ \/ file' = Torn /\ Goto(r, "write")
     \/ file' = file /\ Goto(r, "saved")
  /\ UNCHANGED <<service, servers, request>>

(* An error of the write is logged, and the request goes on.                *)
Write(r) ==
  /\ pc[r] = "write"
  /\ file' \in {Torn, Readable(servers)}
  /\ Goto(r, "saved")
  /\ UNCHANGED <<service, servers, lock, request>>

Release(r) ==
  /\ pc[r] = "saved"
  /\ lock' = NoOne
  /\ Replied(r)
  /\ UNCHANGED <<service, servers, file, request>>

(* verify_server_background reads the server, ...                           *)
Verify(r) ==
  /\ pc[r] = "answered"
  /\ IF request[r].server \in servers
     THEN /\ request' = [request EXCEPT ![r].op = "verification"]
          /\ Goto(r, "verifying")
     ELSE /\ Goto(r, "over")
          /\ UNCHANGED request
  /\ UNCHANGED <<service, servers, file, lock>>

(* ... waits for the other host, and writes back the server it read; an     *)
(* error is logged.                                                         *)
Verified(r) ==
  /\ pc[r] = "verifying"
  /\ NobodyFirst
  /\ \E label \in {"acquire", "over"} : Goto(r, label)
  /\ UNCHANGED <<service, servers, file, lock, request>>

(* Shutdown: the server lets requests and verifications end, and then saves.*)
Close ==
  /\ service = "up"
  /\ \A r \in Requests : pc[r] \in {"idle", "over"}
  /\ lock = NoOne
  /\ \/ file' = Torn /\ service' = "closing"
     \/ file' = file /\ service' = "down"
  /\ UNCHANGED <<servers, lock, request, pc>>

CloseWrite ==
  /\ service = "closing"
  /\ file' \in {Torn, Readable(servers)}
  /\ service' = "down"
  /\ UNCHANGED <<servers, lock, request, pc>>

(* The process is stopped in the middle of anything.                        *)
Kill ==
  /\ service # "down"
  /\ service' = "down"
  /\ pc' = Idle
  /\ UNCHANGED <<servers, file, lock, request>>

Step(r) ==
  \/ Arrive(r) \/ Change(r) \/ EnterSave(r) \/ Write(r) \/ Release(r)
  \/ Verify(r) \/ Verified(r)

Next == (\E r \in Requests : Step(r)) \/ Startup \/ Close \/ CloseWrite \/ Kill

(* The event loop runs every task that can go on.  Starting, closing and    *)
(* stopping the service is up to others.                                    *)
FairSpec == Init /\ [][Next]_vars /\ \A r \in Requests : WF_vars(Step(r))

--------------------------------------------------------------------------------
(* Every registration, update and deletion that came as far as the lock is  *)
(* answered, as the tests of the API expect of each, unless the service is  *)
(* stopped.                                                                 *)
WritesAnswered ==
  \A r \in Requests :
    pc[r] = "acquire" /\ request[r].op # "verification"
      ~> pc[r] \in {"answered", "over", "idle"}
================================================================================
