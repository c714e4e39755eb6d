------------------------ MODULE SandboxApprovalsProofs ------------------------
(***************************************************************************)
(* Proofs about SandboxApprovals for any managers, tools and bounds.       *)
(*                                                                         *)
(* Types, grants and decisions are inductive together: what a manager      *)
(* loads is as good as the file, and what it saves as good as its memory,  *)
(* so neither half of OnlyGranted or DecisionsKept holds without the other.*)
(***************************************************************************)
EXTENDS SandboxApprovals, TLAPS

IInv == TypeOK /\ OnlyGranted /\ DecisionsKept

LEMMA SomeJob == NoJob \in Job /\ Down \in Job
BY SandboxAssumption DEF NoJob, Down, Job, Steps

LEMMA FileIsMap == ASSUME TypeOK PROVE file.map \in Map /\ file.ok \in BOOLEAN
<1>1. NoTools \in Map
  BY DEF NoTools, Map
<1>2. CASE file = Torn
  BY <1>1, <1>2 DEF Torn
<1>3. CASE file # Torn
  <2>1. PICK map \in Map : file = Readable(map)
    BY <1>3 DEF TypeOK, File
  <2> QED BY <2>1 DEF Readable
<1> QED BY <1>2, <1>3

(* What a manager leaves behind: its own job, and a file that is as it was  *)
(* or unreadable; what the others do goes on.                               *)
LEMMA LeftForKeeps ==
  ASSUME TypeOK, NEW m \in Managers, NEW next \in Job, LeftFor(m, next)
  PROVE  /\ file' = file \/ file' = Torn
         /\ file' \in File
         /\ job' \in [Managers -> Job] /\ job'[m] = next
         /\ \A n \in Managers \ {m} : job'[n].step = job[n].step /\ job'[n].tool = job[n].tool
<1>1. CASE job' = [job EXCEPT ![m] = next] /\ UNCHANGED file
  BY <1>1 DEF TypeOK
<1>2. CASE /\ file' = Torn
           /\ job' = [n \in Managers |->
                        IF n = m THEN next
                        ELSE IF At(n, "dump") THEN [job[n] EXCEPT !.mixed = TRUE] ELSE job[n]]
  <2>1. \A n \in Managers : [job[n] EXCEPT !.mixed = TRUE] \in Job
    BY DEF TypeOK, Job
  <2>2. Torn \in File
    BY DEF File
  <2>3. \A n \in Managers \ {m} : job'[n].step = job[n].step /\ job'[n].tool = job[n].tool
    BY <1>2 DEF TypeOK, Job
  <2> QED BY <1>2, <2>1, <2>2, <2>3 DEF TypeOK
<1> QED BY <1>1, <1>2 DEF LeftFor

LEMMA InitIInv == Init => IInv
<1> SUFFICES ASSUME Init PROVE IInv
  OBVIOUS
<1>1. NoTools \in Map
  BY DEF NoTools, Map
<1>2. TypeOK
  BY <1>1, SomeJob, SandboxAssumption DEF Init, TypeOK, File, Readable
<1>3. OnlyGranted
  BY DEF Init, OnlyGranted, Granted, Readable, NoTools
<1>4. DecisionsKept
  BY DEF Init, DecisionsKept, MemoryKept, FileKept, At, Down, NoJob, Readable, NoTools
<1> QED BY <1>2, <1>3, <1>4 DEF IInv

(* A manager that starts holds what the file says, of the tools it finds.  *)
LEMMA StartKeepsIInv == ASSUME IInv, NEW m \in Managers, Start(m) PROVE IInv'
<1> USE DEF IInv
<1>1. PICK binaries \in SUBSET Tools :
        /\ memory' = [memory EXCEPT ![m] = Loaded(binaries)]
        /\ behind' = [behind EXCEPT ![m] = IF file.ok THEN lost \cup (Tools \ binaries) ELSE Tools]
  BY DEF Start
<1>2. Loaded(binaries) \in Map
  BY FileIsMap DEF Loaded, Map, NoTools
<1>3. \A t \in Tools : Loaded(binaries)[t] \in {file.map[t], None}
  BY DEF Loaded, NoTools
<1>4. TypeOK'
  BY <1>1, <1>2, SomeJob DEF Start, TypeOK
<1>5. OnlyGranted'
  BY <1>1, <1>3 DEF Start, TypeOK, OnlyGranted, Granted
<1>6. MemoryKept'
  <2> SUFFICES ASSUME NEW n \in Managers, NEW t \in Tools, ~At(n, "down")', t \notin behind'[n],
                      ~Deciding(n, t)'
               PROVE  memory'[n][t] = decided'[t]
    BY DEF MemoryKept
  <2>1. CASE n = m
    <3>1. file.ok /\ t \notin lost /\ t \in binaries
      BY <1>1, <2>1 DEF TypeOK
    <3>2. memory'[m][t] = file.map[t]
      BY <1>1, <3>1 DEF Loaded, TypeOK
    <3> QED BY <2>1, <3>1, <3>2 DEF DecisionsKept, FileKept, Start
  <2>2. CASE n # m
    BY <1>1, <2>2 DEF Start, TypeOK, DecisionsKept, MemoryKept, At, Deciding
  <2> QED BY <2>1, <2>2
<1>7. FileKept'
  BY DEF Start, DecisionsKept, FileKept
<1> QED BY <1>4, <1>5, <1>6, <1>7 DEF DecisionsKept

(* The approval is in memory, and the decision still to be saved.           *)
LEMMA ApproveKeepsIInv ==
  ASSUME IInv, NEW m \in Managers, NEW t \in Tools, Approve(m, t) PROVE IInv'
<1> USE DEF IInv, Approve
<1>1. requestFile[t] \in Request
  BY DEF TypeOK, Map
<1>2. [step |-> "save", tool |-> t, mixed |-> FALSE] \in Job
  BY DEF Job, Steps
<1>3. memory[m] \in Map /\ [memory[m] EXCEPT ![t] = requestFile[t]] \in Map
  BY <1>1 DEF TypeOK, Map
<1>4. TypeOK'
  BY <1>1, <1>2, <1>3 DEF TypeOK
<1>5. OnlyGranted'
  <2>1. \A n \in Managers, u \in Tools :
          memory'[n][u] = IF n = m /\ u = t THEN requestFile[t] ELSE memory[n][u]
    BY DEF TypeOK, Map
  <2> QED BY <2>1 DEF OnlyGranted, Granted
<1>6. MemoryKept'
  <2> SUFFICES ASSUME NEW n \in Managers, NEW u \in Tools, ~At(n, "down")', u \notin behind'[n],
                      ~Deciding(n, u)'
               PROVE  memory'[n][u] = decided'[u]
    BY DEF MemoryKept
  <2>1. ~(n = m /\ u = t)
    BY DEF Deciding, TypeOK
  <2>2. memory'[n][u] = memory[n][u]
    BY <2>1 DEF TypeOK, Map
  <2>3. ~At(n, "down") /\ ~Deciding(n, u)
    BY DEF At, Deciding, TypeOK
  <2> QED BY <2>2, <2>3 DEF DecisionsKept, MemoryKept
<1>7. FileKept'
  BY DEF DecisionsKept, FileKept
<1> QED BY <1>4, <1>5, <1>6, <1>7 DEF DecisionsKept

LEMMA TruncateKeepsIInv == ASSUME IInv, NEW m \in Managers, Truncate(m) PROVE IInv'
<1> USE DEF IInv, Truncate
<1>1. \A n \in Managers : job'[n] \in Job
  BY DEF TypeOK, Job, Steps
<1>2. Torn \in File
  BY DEF File
<1>3. TypeOK'
  BY <1>1, <1>2 DEF TypeOK
<1>4. OnlyGranted'
  BY DEF OnlyGranted, Granted, Torn, NoTools
<1>5. \A n \in Managers, t \in Tools :
        /\ At(n, "down")' <=> At(n, "down")
        /\ Deciding(n, t)' <=> Deciding(n, t)
  BY DEF At, Deciding, TypeOK, Job
<1>6. MemoryKept'
  BY <1>5 DEF DecisionsKept, MemoryKept
<1>7. FileKept'
  BY DEF FileKept, Torn
<1> QED BY <1>3, <1>4, <1>6, <1>7 DEF DecisionsKept

(* The saved file is as good as the memory of the manager that saved it;    *)
(* every other manager is behind this one decision.                         *)
LEMMA DumpKeepsIInv == ASSUME IInv, NEW m \in Managers, Dump(m) PROVE IInv'
<1> USE DEF IInv
<1> DEFINE t == job[m].tool
<1>1. /\ t \in Tools
      /\ memory[m] \in Map
      /\ file' \in {Readable(memory[m]), Torn}
      /\ decided' = [decided EXCEPT ![t] = memory[m][t]]
      /\ behind' = [n \in Managers |-> IF n = m THEN behind[m] \ {t} ELSE behind[n] \cup {t}]
      /\ lost' = behind[m] \ {t}
      /\ At(m, "dump")
      /\ UNCHANGED <<requested, requestFile, quarantine, memory, granted>>
  BY DEF Dump, Rewritten, TypeOK, Job
<1>2. /\ job' \in [Managers -> Job]
      /\ \A n \in Managers \ {m} : job'[n].step = job[n].step /\ job'[n].tool = job[n].tool
      /\ job'[m].step = "move"
  BY DEF Dump, TypeOK, Job, Steps
<1>3. TypeOK'
  <2>1. memory[m][t] \in Request \cup {None}
    BY <1>1 DEF Map
  <2>2. decided' \in Map /\ file' \in File
    BY <1>1, <2>1 DEF TypeOK, Map, File
  <2> QED BY <1>1, <1>2, <2>2 DEF TypeOK
<1>4. OnlyGranted'
  BY <1>1 DEF OnlyGranted, Granted, Readable, Torn, NoTools
<1>5. \A u \in Tools : u \notin lost' => memory[m][u] = decided'[u]
  <2> SUFFICES ASSUME NEW u \in Tools, u \notin lost' PROVE memory[m][u] = decided'[u]
    OBVIOUS
  <2>1. CASE u = t
    BY <1>1, <2>1 DEF TypeOK, Map
  <2>2. CASE u # t
    <3>1. u \notin behind[m] /\ ~At(m, "down") /\ ~Deciding(m, u)
      BY <1>1, <2>2 DEF At, Deciding
    <3> QED BY <1>1, <2>2, <3>1 DEF DecisionsKept, MemoryKept, TypeOK, Map
  <2> QED BY <2>1, <2>2
<1>6. MemoryKept'
  <2> SUFFICES ASSUME NEW n \in Managers, NEW u \in Tools, ~At(n, "down")', u \notin behind'[n],
                      ~Deciding(n, u)'
               PROVE  memory'[n][u] = decided'[u]
    BY DEF MemoryKept
  <2>1. CASE n = m
    BY <1>1, <1>5, <2>1
  <2>2. CASE n # m
    <3>1. u # t /\ u \notin behind[n]
      BY <1>1, <2>2
    <3>2. ~At(n, "down") /\ ~Deciding(n, u)
      BY <1>2, <2>2 DEF At, Deciding
    <3> QED BY <1>1, <3>1, <3>2 DEF DecisionsKept, MemoryKept, TypeOK, Map
  <2> QED BY <2>1, <2>2
<1>7. FileKept'
  BY <1>1, <1>5 DEF FileKept, Readable, Torn
<1> QED BY <1>3, <1>4, <1>6, <1>7 DEF DecisionsKept

LEMMA SaveFailsKeepsIInv == ASSUME IInv, NEW m \in Managers, SaveFails(m) PROVE IInv'
<1> USE DEF IInv, SaveFails
<1>1. job[m].tool \in Tools /\ TypeOK
  BY DEF TypeOK, Job
<1>2. /\ file' = file \/ file' = Torn
      /\ file' \in File
      /\ job' \in [Managers -> Job]
      /\ \A n \in Managers \ {m} : job'[n].step = job[n].step /\ job'[n].tool = job[n].tool
  BY SomeJob, LeftForKeeps
<1>3. TypeOK'
  BY <1>1, <1>2 DEF TypeOK
<1>4. OnlyGranted'
  BY <1>2 DEF OnlyGranted, Granted, Torn, NoTools
<1>5. MemoryKept'
  <2> SUFFICES ASSUME NEW n \in Managers, NEW t \in Tools, ~At(n, "down")', t \notin behind'[n],
                      ~Deciding(n, t)'
               PROVE  memory'[n][t] = decided'[t]
    BY DEF MemoryKept
  <2>1. ~(n = m /\ t = job[m].tool) /\ t \notin behind[n]
    BY DEF TypeOK
  <2>2. ~At(n, "down") /\ ~Deciding(n, t)
    <3>1. CASE n = m
      BY <2>1, <3>1 DEF At, Deciding
    <3>2. CASE n # m
      BY <1>2, <3>2 DEF At, Deciding
    <3> QED BY <3>1, <3>2
  <2> QED BY <2>1, <2>2 DEF DecisionsKept, MemoryKept
<1>6. FileKept'
  BY <1>2 DEF DecisionsKept, FileKept, Torn
<1> QED BY <1>3, <1>4, <1>5, <1>6 DEF DecisionsKept

(* A stop at any step; what the manager held is gone with it.               *)
LEMMA StopKeepsIInv == ASSUME IInv, NEW m \in Managers, Stop(m) PROVE IInv'
<1> USE DEF IInv, Stop
<1>1. /\ file' = file \/ file' = Torn
      /\ file' \in File
      /\ job' \in [Managers -> Job] /\ job'[m] = Down
      /\ \A n \in Managers \ {m} : job'[n].step = job[n].step /\ job'[n].tool = job[n].tool
  BY SomeJob, LeftForKeeps
<1>2. TypeOK'
  <2>1. NoTools \in Map
    BY DEF NoTools, Map
  <2> QED BY <1>1, <2>1 DEF TypeOK
<1>3. OnlyGranted'
  BY <1>1 DEF OnlyGranted, Granted, Torn, NoTools, TypeOK
<1>4. MemoryKept'
  <2> SUFFICES ASSUME NEW n \in Managers, NEW t \in Tools, ~At(n, "down")', t \notin behind'[n],
                      ~Deciding(n, t)'
               PROVE  memory'[n][t] = decided'[t]
    BY DEF MemoryKept
  <2>1. n # m
    BY <1>1 DEF At, Down, NoJob
  <2>2. ~At(n, "down") /\ ~Deciding(n, t)
    BY <1>1, <2>1 DEF At, Deciding
  <2> QED BY <2>1, <2>2 DEF DecisionsKept, MemoryKept, TypeOK
<1>5. FileKept'
  BY <1>1 DEF DecisionsKept, FileKept, Torn
<1> QED BY <1>2, <1>3, <1>4, <1>5 DEF DecisionsKept

(* Requests, denials and the record of a revocation leave every approval    *)
(* and every save in progress as they are.                                  *)
LEMMA RestKeepsIInv ==
  ASSUME IInv, NEW m \in Managers, NEW t \in Tools,
         MoveRequest(m) \/ Unlink(m) \/ RequestApproval(m, t) \/ Revoke(m, t) \/ Deny(m, t)
  PROVE  IInv'
<1> USE DEF IInv
<1>1. UNCHANGED <<file, granted, decided, behind, lost>>
  BY DEF MoveRequest, Unlink, RequestApproval, Revoke, Deny
<1>2. memory' = memory
  BY DEF MoveRequest, Unlink, RequestApproval, Revoke, Deny
<1>3. requested' \in [Tools -> Nat] /\ requestFile' \in Map
  <2>1. CASE RequestApproval(m, t)
    <3>1. requested[t] \in Nat /\ MaxRequests[t] \in Nat
      BY SandboxAssumption DEF TypeOK
    <3>2. requested[t] + 1 \in 1 .. MaxRequests[t]
      BY <2>1, <3>1 DEF RequestApproval
    <3>3. requested[t] + 1 \in Request
      BY <3>2 DEF Request
    <3>4. requested' = [requested EXCEPT ![t] = requested[t] + 1]
          /\ requestFile' = [requestFile EXCEPT ![t] = requested[t] + 1]
      BY <2>1 DEF RequestApproval, TypeOK
    <3> QED BY <3>1, <3>3, <3>4 DEF TypeOK, Map
  <2>2. CASE ~RequestApproval(m, t)
    <3>1. requested' = requested /\ \/ requestFile' = requestFile
                                    \/ requestFile' = [requestFile EXCEPT ![job[m].tool] = None]
      BY <2>2 DEF MoveRequest, Unlink, Revoke, Deny
    <3> QED BY <3>1 DEF TypeOK, Map
  <2> QED BY <2>1, <2>2
<1>4. quarantine' \subseteq Tools
  BY DEF TypeOK, MoveRequest, Unlink, RequestApproval, Revoke, Deny
<1>5. \/ job' = job
      \/ \E j \in Job : job' = [job EXCEPT ![m] = j] /\ j.step \in {"idle", "unlink"}
  <2>1. [step |-> "unlink", tool |-> t, mixed |-> FALSE] \in Job
    BY DEF Job, Steps
  <2>2. NoJob.step = "idle"
    BY DEF NoJob
  <2> QED BY <2>1, <2>2, SomeJob DEF MoveRequest, Unlink, RequestApproval, Revoke, Deny
<1>6. TypeOK'
  BY <1>1, <1>2, <1>3, <1>4, <1>5 DEF TypeOK
<1>7. OnlyGranted'
  BY <1>1, <1>2 DEF OnlyGranted, Granted
<1>8. MemoryKept'
  <2> SUFFICES ASSUME NEW n \in Managers, NEW u \in Tools, ~At(n, "down")', u \notin behind'[n],
                      ~Deciding(n, u)'
               PROVE  memory'[n][u] = decided'[u]
    BY DEF MemoryKept
  <2>1. ~At(n, "down") /\ ~Deciding(n, u)
    BY DEF MoveRequest, Unlink, RequestApproval, Revoke, Deny, At, Deciding, TypeOK, NoJob
  <2> QED BY <1>1, <1>2, <2>1 DEF DecisionsKept, MemoryKept
<1>9. FileKept'
  BY <1>1 DEF DecisionsKept, FileKept
<1> QED BY <1>6, <1>7, <1>8, <1>9 DEF DecisionsKept

LEMMA StepKeepsIInv == IInv /\ [Next]_vars => IInv'
<1> SUFFICES ASSUME IInv, [Next]_vars PROVE IInv'
  OBVIOUS
<1>1. CASE UNCHANGED vars
  BY <1>1 DEF vars, IInv, TypeOK, OnlyGranted, Granted, DecisionsKept, MemoryKept, FileKept,
              At, Deciding
<1>2. CASE Next
  <2>1. PICK m \in Managers, t \in Tools :
          \/ Start(m) \/ Stop(m) \/ Truncate(m) \/ Dump(m) \/ SaveFails(m)
          \/ MoveRequest(m) \/ Unlink(m)
          \/ RequestApproval(m, t) \/ Approve(m, t) \/ Revoke(m, t) \/ Deny(m, t)
    BY <1>2, SandboxAssumption DEF Next
  <2> QED BY <2>1, StartKeepsIInv, StopKeepsIInv, ApproveKeepsIInv, TruncateKeepsIInv,
             DumpKeepsIInv, SaveFailsKeepsIInv, RestKeepsIInv
<1> QED BY <1>1, <1>2

LEMMA AlwaysIInv == Spec => []IInv
BY InitIInv, StepKeepsIInv, PTL DEF Spec

(* Every variable of the sandbox keeps its type.                            *)
THEOREM TypeCorrect == Spec => []TypeOK
BY AlwaysIInv, PTL DEF IInv

(* Deny by default: through crashes, torn and mixed files, failing saves    *)
(* and managers that overwrite one another, an approval always goes back to *)
(* a request that approve_tool read.                                        *)
THEOREM ApprovalsGranted == Spec => []OnlyGranted
BY AlwaysIInv, PTL DEF IInv

(* A saved decision is only lost to a writer that did not know of it.       *)
THEOREM DecisionsSurvive == Spec => []DecisionsKept
BY AlwaysIInv, PTL DEF IInv
================================================================================
