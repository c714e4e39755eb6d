-------------------------- MODULE KnowledgeBaseProofs --------------------------
(***************************************************************************)
(* Proofs about the programs that fill the knowledge base and those that   *)
(* refine it.                                                              *)
(*                                                                         *)
(* KnowledgeBurst is proved for any finite set of commands, any number of  *)
(* threads, batch size and interval of saves.                              *)
(*                                                                         *)
(* A known command keeps its analysis because no thread ever opens the     *)
(* file of a command that is known: KInv says so of every stage a command  *)
(* goes through.  Counting (CInv) then rests on the set of commands that   *)
(* still have to be counted.                                               *)
(***************************************************************************)
EXTENDS KnowledgeBurst, RiskRefinery, FiniteSetTheorems, TLAPS

Unwritten == {"queued", "ask", "open", "write"}

PoolOnly ==
  /\ phase # "pool" => worker = Idle
  /\ phase \notin {"batch", "pool"} => todo = {}
  /\ \A c \in todo : worker[c] = "none"

NewOnly ==
  \A c \in Commands :
    /\ c \in todo \/ worker[c] \in Unwritten => c \notin discovered \cup list.set
    /\ worker[c] = "record" => analysis[c] = "whole"

ListInMemory == phase # "down" => list.set \cup kept \subseteq discovered

KnowledgeKept == KnownAreAnalysed /\ ListKeepsAll

KInv == TypeOK /\ KnowledgeKept /\ PoolOnly /\ NewOnly /\ ListInMemory

--------------------------------------------------------------------------------
Files == {Readable(s) : s \in SUBSET Commands} \cup {Torn}

LEMMA FileTypes ==
  /\ Torn \in Files /\ Torn.set = {} /\ ~Torn.ok
  /\ \A s \in SUBSET Commands : Readable(s) \in Files /\ Readable(s).set = s /\ Readable(s).ok
  /\ \A f \in Files : f.set \subseteq Commands
<1>1. Torn \in Files /\ Torn.set = {} /\ ~Torn.ok
  BY DEF Files, Torn
<1>2. \A s \in SUBSET Commands : Readable(s) \in Files /\ Readable(s).set = s /\ Readable(s).ok
  BY DEF Files, Readable
<1>3. ASSUME NEW f \in Files PROVE f.set \subseteq Commands
  <2>1. CASE f = Torn
    BY <1>1, <2>1
  <2>2. CASE f # Torn
    <3>1. PICK s \in SUBSET Commands : f = Readable(s)
      BY <2>2 DEF Files
    <3> QED BY <1>2, <3>1
  <2> QED BY <2>1, <2>2
<1> QED BY <1>1, <1>2, <1>3

LEMMA InitKInv == Init => KInv
<1> SUFFICES ASSUME Init PROVE KInv
  OBVIOUS
<1>1. TypeOK
  BY FileTypes, BurstAssumption DEF Init, TypeOK, Idle, Files
<1>2. KnowledgeKept
  BY FileTypes DEF Init, KnowledgeKept, KnownAreAnalysed, ListKeepsAll
<1>3. PoolOnly /\ NewOnly /\ ListInMemory
  BY FileTypes DEF Init, PoolOnly, NewOnly, ListInMemory, Idle, Unwritten
<1> QED BY <1>1, <1>2, <1>3 DEF KInv

(* Starting, planning and stopping: nothing is submitted.                   *)
LEMMA OutsideKeepsKInv == ASSUME KInv, Start \/ Repair \/ Plan \/ Again \/ End PROVE KInv'
<1> USE DEF KInv, TypeOK, counters, history
<1>1. CASE Start
  <2>1. list.set \subseteq Commands
    BY FileTypes DEF Files
  <2>2. TypeOK'
    BY <1>1, <2>1 DEF Start
  <2>3. KnowledgeKept' /\ PoolOnly' /\ NewOnly' /\ ListInMemory'
    BY <1>1 DEF Start, Loaded, KnowledgeKept, KnownAreAnalysed, ListKeepsAll, PoolOnly, NewOnly,
                ListInMemory, Idle, Unwritten
  <2> QED BY <2>2, <2>3
<1>2. CASE Repair
  <2>1. TypeOK'
    BY <1>2, FileTypes DEF Repair, Files
  <2>2. KnowledgeKept' /\ PoolOnly' /\ NewOnly' /\ ListInMemory'
    BY <1>2, FileTypes DEF Repair, KnowledgeKept, KnownAreAnalysed, ListKeepsAll, PoolOnly,
                NewOnly, ListInMemory, Idle, Unwritten
  <2> QED BY <2>1, <2>2
<1>3. CASE Plan
  <2>1. todo' \subseteq Commands \ discovered /\ planned' = todo'
    BY <1>3 DEF Plan, Portions
  <2>2. /\ phase' \in {"over", "batch"}
        /\ phase' = "over" => todo' = {}
        /\ UNCHANGED <<program, worker, attempt, lock, discovered, counters, list, analysis,
                       unsaved, dropped, kept>>
    BY <1>3, <2>1 DEF Plan
  <2>3. TypeOK'
    BY <2>1, <2>2
  <2>4. worker = Idle
    BY <1>3 DEF Plan, PoolOnly
  <2>5. PoolOnly' /\ NewOnly' /\ ListInMemory'
    BY <1>3, <2>1, <2>2, <2>4 DEF Plan, PoolOnly, NewOnly, ListInMemory, Idle, Unwritten
  <2> QED BY <2>2, <2>3, <2>5 DEF KnowledgeKept, KnownAreAnalysed, ListKeepsAll
<1>4. CASE Again
  BY <1>4 DEF Again, KnowledgeKept, KnownAreAnalysed, ListKeepsAll, PoolOnly, NewOnly,
              ListInMemory
<1>5. CASE End
  <2>1. TypeOK'
    BY <1>5, BurstAssumption DEF End, Idle
  <2>2. KnowledgeKept' /\ PoolOnly' /\ NewOnly' /\ ListInMemory'
    BY <1>5 DEF End, KnowledgeKept, KnownAreAnalysed, ListKeepsAll, PoolOnly, NewOnly,
                ListInMemory, Idle, Unwritten
  <2> QED BY <2>1, <2>2
<1> QED BY <1>1, <1>2, <1>3, <1>4, <1>5

(* A batch is part of what is left to do.                                   *)
LEMMA SubmitKeepsKInv ==
  ASSUME KInv, Submit
  PROVE  /\ KInv'
         /\ \E b \in SUBSET todo :
              todo' = todo \ b
              /\ worker' = [c \in Commands |-> IF c \in b THEN "queued" ELSE "none"]
<1> USE DEF KInv, TypeOK, counters, history
<1>1. PICK b \in SUBSET todo :
        todo' = todo \ b
        /\ worker' = [c \in Commands |-> IF c \in b THEN "queued" ELSE "none"]
  BY DEF Submit, Portions
<1>2. TypeOK'
  BY <1>1, BurstAssumption DEF Submit
<1>3. PoolOnly'
  BY <1>1 DEF Submit, PoolOnly
<1>4. NewOnly'
  BY <1>1 DEF Submit, NewOnly, Unwritten
<1> QED BY <1>1, <1>2, <1>3, <1>4
        DEF Submit, KnowledgeKept, KnownAreAnalysed, ListKeepsAll, ListInMemory

LEMMA MainKeepsKInv ==
  ASSUME KInv, BatchDone \/ OpenList \/ DumpList \/ FinalSaveFails PROVE KInv'
<1> USE DEF KInv, TypeOK, counters, history
<1>1. CASE BatchDone
  BY <1>1 DEF BatchDone, KnowledgeKept, KnownAreAnalysed, ListKeepsAll, PoolOnly, NewOnly,
              ListInMemory, Idle, Unwritten
<1>2. CASE OpenList
  <2>1. TypeOK'
    BY <1>2, FileTypes DEF OpenList, Files
  <2> QED BY <1>2, <2>1, FileTypes DEF OpenList, KnowledgeKept, KnownAreAnalysed, ListKeepsAll,
             PoolOnly, NewOnly, ListInMemory
<1>3. CASE DumpList
  <2>1. TypeOK'
    BY <1>3, FileTypes DEF DumpList, Files
  <2> QED BY <1>3, <2>1, FileTypes DEF DumpList, KnowledgeKept, KnownAreAnalysed, ListKeepsAll,
             PoolOnly, NewOnly, ListInMemory
<1>4. CASE FinalSaveFails
  BY <1>4 DEF FinalSaveFails, KnowledgeKept, KnownAreAnalysed, ListKeepsAll, PoolOnly, NewOnly,
              ListInMemory
<1> QED BY <1>1, <1>2, <1>3, <1>4

--------------------------------------------------------------------------------
(* A thread works for a submitted command, so in the pool.                  *)
LEMMA InPool ==
  ASSUME KInv, NEW c \in Commands, worker[c] # "none"
  PROVE  phase = "pool" /\ c \notin todo
BY DEF KInv, PoolOnly, Idle

Labels == {"queued", "ask", "open", "write", "record", "save", "dump", "fail", "done"}

(* Steps of a thread that change no file, no list and no known command.     *)
LEMMA PlainKeepsKInv ==
  ASSUME KInv, NEW c \in Commands, NEW label \in Labels, worker[c] # "none",
         worker' = worker \/ worker' = [worker EXCEPT ![c] = label],
         label \in Unwritten => worker[c] \in Unwritten,
         label # "record",
         attempt' \in [Commands -> 0 .. MaxAttempts + 1],
         lock' \in Commands \cup {NoOne}, failed' \in Nat, unsaved' \in Nat,
         dropped' \subseteq Commands,
         UNCHANGED <<program, phase, todo, discovered, completed, list, analysis, planned, kept>>
  PROVE  KInv'
<1> USE DEF KInv, TypeOK
<1>1. TypeOK'
  BY DEF Labels
<1>2. phase = "pool" /\ c \notin todo
  BY InPool
<1>3. PoolOnly'
  BY <1>2 DEF PoolOnly
<1>4. NewOnly'
  BY <1>2 DEF NewOnly, Unwritten, Labels
<1> QED BY <1>1, <1>3, <1>4 DEF KnowledgeKept, KnownAreAnalysed, ListKeepsAll, ListInMemory

(* The file of a command is only opened while nobody knows the command.     *)
LEMMA FileKeepsKInv ==
  ASSUME KInv, NEW c \in Commands, OpenFile(c) \/ WriteFile(c) PROVE KInv'
<1> USE DEF KInv, TypeOK, counters, history
<1>1. /\ worker[c] \in {"open", "write"}
      /\ \/ worker' = [worker EXCEPT ![c] = "write"] /\ analysis' = [analysis EXCEPT ![c] = "torn"]
         \/ /\ worker' = [worker EXCEPT ![c] = "record"]
            /\ analysis' = [analysis EXCEPT ![c] = "whole"]
      /\ UNCHANGED <<program, phase, todo, attempt, lock, discovered, counters, list, history>>
  BY DEF OpenFile, WriteFile, Opened, Goto
<1>2. c \notin discovered \cup list.set
  BY <1>1 DEF NewOnly, Unwritten
<1>3. TypeOK'
  BY <1>1
<1>4. phase = "pool" /\ c \notin todo
  BY <1>1, InPool
<1>5. KnowledgeKept'
  <2>1. discovered \cup list.set \subseteq Commands \ {c}
    BY <1>2, FileTypes DEF Files
  <2>2. \A d \in Commands \ {c} : analysis'[d] = analysis[d]
    BY <1>1
  <2> QED BY <1>1, <2>1, <2>2 DEF KnowledgeKept, KnownAreAnalysed, ListKeepsAll
<1>6. PoolOnly'
  BY <1>1, <1>4 DEF PoolOnly
<1>7. NewOnly'
  BY <1>1, <1>4 DEF NewOnly, Unwritten
<1> QED BY <1>1, <1>3, <1>5, <1>6, <1>7 DEF ListInMemory

LEMMA RecordKeepsKInv == ASSUME KInv, NEW c \in Commands, Record(c) PROVE KInv'
<1> USE DEF KInv, TypeOK, history
<1>1. /\ worker[c] = "record" /\ discovered' = discovered \cup {c}
      /\ \E label \in {"done", "save"} : worker' = [worker EXCEPT ![c] = label]
      /\ lock' \in Commands \cup {NoOne} /\ completed' \in Nat
      /\ UNCHANGED <<program, phase, todo, attempt, failed, list, analysis, history>>
  BY DEF Record, Goto
<1>2. phase = "pool" /\ c \notin todo /\ analysis[c] = "whole"
  BY <1>1, InPool DEF NewOnly
<1>3. TypeOK'
  BY <1>1
<1>4. KnowledgeKept' /\ ListInMemory'
  BY <1>1, <1>2 DEF KnowledgeKept, KnownAreAnalysed, ListKeepsAll, ListInMemory
<1>5. PoolOnly'
  BY <1>1, <1>2 DEF PoolOnly
<1>6. NewOnly'
  BY <1>1, <1>2, FileTypes DEF NewOnly, Unwritten
<1> QED BY <1>3, <1>4, <1>5, <1>6

LEMMA EmptyKeepsKInv == ASSUME KInv, NEW c \in Commands, EmptyList(c) PROVE KInv'
<1> USE DEF KInv, TypeOK, counters, history, EmptyList, Goto
<1>1. phase = "pool" /\ c \notin todo
  BY InPool
<1>2. list'.set = {} /\ ~list'.ok /\ list' \in Files
  BY FileTypes
<1>3. TypeOK'
  BY <1>2 DEF Files
<1>4. KnowledgeKept' /\ ListInMemory'
  BY <1>1, <1>2 DEF KnowledgeKept, KnownAreAnalysed, ListKeepsAll, ListInMemory
<1>5. PoolOnly'
  BY <1>1 DEF PoolOnly
<1>6. NewOnly'
  BY <1>1, <1>2 DEF NewOnly, Unwritten
<1> QED BY <1>3, <1>4, <1>5, <1>6

LEMMA SaveKeepsKInv == ASSUME KInv, NEW c \in Commands, Save(c) PROVE KInv'
<1> USE DEF KInv, TypeOK, counters, Save, Goto
<1>1. phase = "pool" /\ c \notin todo
  BY InPool
<1>2. list'.set = discovered /\ list' \in Files
  BY FileTypes
<1>3. TypeOK'
  BY <1>2 DEF Files
<1>4. KnowledgeKept' /\ ListInMemory'
  BY <1>1, <1>2 DEF KnowledgeKept, KnownAreAnalysed, ListKeepsAll, ListInMemory
<1>5. PoolOnly'
  BY <1>1 DEF PoolOnly
<1>6. NewOnly'
  BY <1>1, <1>2 DEF NewOnly, Unwritten
<1> QED BY <1>3, <1>4, <1>5, <1>6

LEMMA ThreadKeepsKInv == ASSUME KInv, NEW c \in Commands, ThreadStep(c) PROVE KInv'
<1> USE DEF Goto, counters, history
<1>0. TypeOK
  BY DEF KInv
<1>1. CASE Take(c)
  BY <1>0, <1>1, PlainKeepsKInv DEF Take, Labels, Unwritten, TypeOK
<1>2. CASE Answer(c)
  <2>1. attempt' \in [Commands -> 0 .. MaxAttempts + 1]
    <3>1. Attempts \in Nat /\ Attempts <= MaxAttempts + 1
      BY BurstAssumption DEF Attempts
    <3>2. attempt[c] \in Nat
      BY <1>0, BurstAssumption DEF TypeOK
    <3>3. attempt' = attempt \/ (attempt[c] + 1 < Attempts
                                 /\ attempt' = [attempt EXCEPT ![c] = attempt[c] + 1])
      BY <1>2 DEF Answer
    <3> QED BY <1>0, <3>1, <3>2, <3>3, BurstAssumption DEF TypeOK
  <2>2. PICK label \in {"open", "fail"} :
          worker' = worker \/ worker' = [worker EXCEPT ![c] = label]
    BY <1>2 DEF Answer
  <2>3. /\ label \in Labels /\ label # "record" /\ worker[c] # "none"
        /\ label \in Unwritten => worker[c] \in Unwritten
    BY <1>2, <2>2 DEF Answer, Labels, Unwritten
  <2>4. UNCHANGED <<program, phase, todo, discovered, completed, list, analysis, planned, kept>>
    BY <1>2 DEF Answer
  <2>5. /\ lock' \in Commands \cup {NoOne} /\ failed' \in Nat /\ unsaved' \in Nat
        /\ dropped' \subseteq Commands
    BY <1>0, <1>2 DEF Answer, TypeOK
  <2> QED BY <2>1, <2>2, <2>3, <2>4, <2>5, PlainKeepsKInv
<1>3. CASE OpenFile(c) \/ WriteFile(c)
  BY <1>3, FileKeepsKInv
<1>4. CASE WriteFails(c)
  <2>1. \E label \in {"done", "fail"} : worker' = [worker EXCEPT ![c] = label]
    BY <1>4 DEF WriteFails
  <2> QED BY <1>0, <1>4, <2>1, PlainKeepsKInv DEF WriteFails, Labels, Unwritten, TypeOK
<1>5. CASE Record(c)
  BY <1>5, RecordKeepsKInv
<1>6. CASE Save(c)
  BY <1>6, SaveKeepsKInv
<1>7. CASE SaveFails(c)
  <2>1. PICK label \in {"done", "fail"} : worker' = [worker EXCEPT ![c] = label]
    BY <1>7 DEF SaveFails
  <2>2. label \in Labels /\ label # "record" /\ label \notin Unwritten /\ worker[c] # "none"
    BY <1>7, <2>1 DEF SaveFails, Labels, Unwritten
  <2>3. /\ lock' \in Commands \cup {NoOne} /\ failed' \in Nat /\ unsaved' \in Nat
        /\ dropped' \subseteq Commands /\ attempt' \in [Commands -> 0 .. MaxAttempts + 1]
    BY <1>0, <1>7 DEF SaveFails, Released, TypeOK
  <2>4. UNCHANGED <<program, phase, todo, discovered, completed, list, analysis, planned, kept>>
    BY <1>7 DEF SaveFails
  <2> QED BY <2>1, <2>2, <2>3, <2>4, PlainKeepsKInv
<1>8. CASE Fail(c)
  <2>1. failed' \in Nat
    BY <1>0, <1>8 DEF Fail, FailureCounted, TypeOK
  <2> QED BY <1>0, <1>8, <2>1, PlainKeepsKInv DEF Fail, Labels, Unwritten, TypeOK
<1>9. CASE OpenFailsAtRate(c)
  <2>1. /\ worker[c] = "open" /\ worker' = [worker EXCEPT ![c] = "ask"]
        /\ attempt' = [attempt EXCEPT ![c] = attempt[c] + 1]
        /\ attempt[c] + 1 < Attempts
        /\ UNCHANGED <<program, phase, todo, lock, discovered, completed, failed, list,
                       analysis, planned, unsaved, dropped, kept>>
    BY <1>9 DEF OpenFailsAtRate
  <2>2. attempt' \in [Commands -> 0 .. MaxAttempts + 1]
    <3>1. Attempts \in Nat /\ Attempts <= MaxAttempts + 1
      BY BurstAssumption DEF Attempts
    <3>2. attempt[c] \in Nat
      BY <1>0, BurstAssumption DEF TypeOK
    <3> QED BY <1>0, <2>1, <3>1, <3>2, BurstAssumption DEF TypeOK
  <2> QED BY <1>0, <2>1, <2>2, PlainKeepsKInv DEF Labels, Unwritten, TypeOK
<1>10. CASE EmptyList(c)
  BY <1>10, EmptyKeepsKInv
<1> QED BY <1>1, <1>2, <1>3, <1>4, <1>5, <1>6, <1>7, <1>8, <1>9, <1>10 DEF ThreadStep

LEMMA StepKeepsKInv == KInv /\ [Next]_vars => KInv'
<1> SUFFICES ASSUME KInv, [Next]_vars PROVE KInv'
  OBVIOUS
<1>1. CASE UNCHANGED vars
  BY <1>1 DEF vars, counters, history, KInv, TypeOK, KnowledgeKept, KnownAreAnalysed,
              ListKeepsAll, PoolOnly, NewOnly, ListInMemory
<1>2. CASE Next
  BY <1>2, OutsideKeepsKInv, SubmitKeepsKInv, MainKeepsKInv, ThreadKeepsKInv
     DEF Next, MainStep
<1> QED BY <1>1, <1>2

LEMMA AlwaysKInv == Spec => []KInv
BY InitKInv, StepKeepsKInv, PTL DEF Spec

(* Every variable of the collectors keeps its type.                         *)
THEOREM TypeCorrect == Spec => []TypeOK
BY AlwaysKInv, PTL DEF KInv

(* Wherever a collector is stopped, and whatever it was writing, a command  *)
(* known in memory or in the list has its whole analysis.                   *)
THEOREM KnowledgeSafe == Spec => []KnownAreAnalysed
BY AlwaysKInv, PTL DEF KInv, KnowledgeKept

(* Through stops, failing saves and new starts the list that can be read    *)
(* holds every command that any save has put into it.                       *)
THEOREM SavesAccumulate == Spec => []ListKeepsAll
BY AlwaysKInv, PTL DEF KInv, KnowledgeKept

--------------------------------------------------------------------------------
(* The commands of this run that are not counted yet.                       *)
Uncounted ==
  todo \cup {c \in Commands : worker[c] \in Unwritten \cup {"record", "fail"}}

Account ==
  /\ dropped \cap Uncounted = {}
  /\ program # "hybrid" => dropped = {}
  /\ phase = "plan" => completed = 0 /\ failed = 0 /\ unsaved = 0 /\ dropped = {}
  /\ phase \notin {"down", "plan"} =>
       completed + failed + Cardinality(dropped) + Cardinality(Uncounted)
         = Cardinality(planned) + (IF CountsErrors THEN unsaved ELSE 0)

CInv == program # "minimal" => Account

LEMMA Sizes ==
  ASSUME NEW s \in SUBSET Commands
  PROVE  /\ IsFiniteSet(s) /\ Cardinality(s) \in Nat
         /\ \A c \in s : Cardinality(s \ {c}) = Cardinality(s) - 1
         /\ \A c : c \notin s => Cardinality(s \cup {c}) = Cardinality(s) + 1
<1>1. IsFiniteSet(s)
  BY FS_Subset, BurstAssumption
<1> QED BY <1>1, FS_CardinalityType, FS_AddElement, FS_RemoveElement

LEMMA UncountedType == KInv => Uncounted \subseteq Commands
BY DEF KInv, TypeOK, Uncounted

(* What is uncounted only depends on where each thread is.                  *)
LEMMA Moved ==
  ASSUME KInv, NEW c \in Commands, NEW label, worker[c] # "none", UNCHANGED todo,
         worker' = [worker EXCEPT ![c] = label]
  PROVE  /\ label \in Unwritten \cup {"record", "fail"} => Uncounted' = Uncounted \cup {c}
         /\ label \notin Unwritten \cup {"record", "fail"} => Uncounted' = Uncounted \ {c}
         /\ worker[c] \in Unwritten \cup {"record", "fail"} <=> c \in Uncounted
<1>1. c \notin todo
  BY InPool
<1>2. \A d \in Commands : worker'[d] = IF d = c THEN label ELSE worker[d]
  BY DEF KInv, TypeOK
<1>3. todo \subseteq Commands /\ todo' = todo
  BY DEF KInv, TypeOK
<1> HIDE DEF Unwritten
<1> QED BY <1>1, <1>2, <1>3 DEF Uncounted

(* A step that counts nothing and leaves nothing uncounted counted.         *)
LEMMA StillKeepsCInv ==
  ASSUME CInv, program # "minimal", Uncounted' = Uncounted,
         phase \notin {"down", "plan"}, phase' \notin {"down", "plan"},
         UNCHANGED <<program, completed, failed, planned, unsaved, dropped>>
  PROVE  CInv'
BY DEF CInv, Account, CountsErrors

(* A step of a thread either keeps its command uncounted, or counts it, or  *)
(* drops it, or has to count it a second time.                              *)
LEMMA ThreadKeepsCInv ==
  ASSUME KInv, CInv, program # "minimal", NEW c \in Commands, ThreadStep(c) PROVE CInv'
<1> USE DEF Goto, counters, history
<1>1. /\ worker[c] # "none" /\ phase = "pool"
      /\ UNCHANGED <<program, phase, todo, planned>>
  <2>1. worker[c] # "none" /\ UNCHANGED <<program, phase, todo, planned>>
    BY DEF ThreadStep, Take, Answer, OpenFile, WriteFile, WriteFails, OpenFailsAtRate, Record,
           EmptyList, Save, SaveFails, Fail
  <2> QED BY <2>1, InPool
<1>2. /\ Uncounted \subseteq Commands /\ dropped \subseteq Commands
      /\ completed \in Nat /\ failed \in Nat /\ unsaved \in Nat
  BY UncountedType DEF KInv, TypeOK
<1>3. /\ Cardinality(Uncounted) \in Nat /\ Cardinality(dropped) \in Nat
      /\ c \in Uncounted => Cardinality(Uncounted \ {c}) = Cardinality(Uncounted) - 1
      /\ c \notin Uncounted => Cardinality(Uncounted \cup {c}) = Cardinality(Uncounted) + 1
      /\ c \notin dropped => Cardinality(dropped \cup {c}) = Cardinality(dropped) + 1
  BY <1>2, Sizes
<1>4. Cardinality(planned) \in Nat
  BY Sizes DEF KInv, TypeOK
<1>5. /\ dropped \cap Uncounted = {}
      /\ program # "hybrid" => dropped = {}
      /\ completed + failed + Cardinality(dropped) + Cardinality(Uncounted)
           = Cardinality(planned) + (IF CountsErrors THEN unsaved ELSE 0)
  BY <1>1 DEF CInv, Account
<1>6. CASE UNCHANGED <<completed, failed, unsaved, dropped>> /\ Uncounted' = Uncounted
  BY <1>1, <1>6, StillKeepsCInv
<1>7. CASE Take(c) \/ Answer(c) \/ OpenFile(c) \/ WriteFile(c) \/ OpenFailsAtRate(c)
  <2>1. UNCHANGED <<completed, failed, unsaved, dropped, todo>> /\ worker[c] \in Unwritten
    BY <1>7 DEF Take, Answer, OpenFile, WriteFile, OpenFailsAtRate, Unwritten
  <2>2. worker' = worker \/ \E label \in Unwritten \cup {"record", "fail"} :
                              worker' = [worker EXCEPT ![c] = label]
    BY <1>7 DEF Take, Answer, OpenFile, WriteFile, OpenFailsAtRate, Unwritten
  <2>3. Uncounted' = Uncounted
    <3>1. CASE worker' = worker
      BY <2>1, <3>1 DEF Uncounted
    <3>2. CASE worker' # worker
      <4>1. PICK label \in Unwritten \cup {"record", "fail"} :
              worker' = [worker EXCEPT ![c] = label]
        BY <2>2, <3>2
      <4>2. Uncounted' = Uncounted \cup {c} /\ c \in Uncounted
        BY <1>1, <2>1, <4>1, Moved
      <4> QED BY <4>2
    <3> QED BY <3>1, <3>2
  <2> QED BY <1>6, <2>1, <2>3
<1>8. CASE WriteFails(c)
  <2>1. worker[c] \in Unwritten /\ UNCHANGED <<completed, failed, unsaved>>
    BY <1>8 DEF WriteFails, Unwritten
  <2>2. CASE program = "hybrid"
    <3>1. worker' = [worker EXCEPT ![c] = "done"] /\ dropped' = dropped \cup {c}
      BY <1>8, <2>2 DEF WriteFails
    <3>2. Uncounted' = Uncounted \ {c} /\ c \in Uncounted
      <4>1. "done" \notin Unwritten \cup {"record", "fail"}
        BY DEF Unwritten
      <4> QED BY <1>1, <2>1, <3>1, <4>1, Moved
    <3> QED BY <1>1, <1>3, <1>4, <1>5, <1>2, <2>1, <2>2, <3>1, <3>2 DEF CInv, Account, CountsErrors
  <2>3. CASE program # "hybrid"
    <3>1. worker' = [worker EXCEPT ![c] = "fail"] /\ dropped' = dropped
      BY <1>8, <2>3 DEF WriteFails
    <3>2. Uncounted' = Uncounted \cup {c} /\ c \in Uncounted
      BY <1>1, <2>1, <3>1, Moved
    <3> QED BY <1>6, <2>1, <3>1, <3>2
  <2> QED BY <2>2, <2>3
<1>9. CASE Record(c)
  <2>1. /\ worker[c] = "record" /\ completed' = completed + 1
        /\ UNCHANGED <<failed, unsaved, dropped>>
    BY <1>9 DEF Record
  <2>2. PICK label \in {"done", "save"} : worker' = [worker EXCEPT ![c] = label]
    BY <1>9 DEF Record
  <2>3. Uncounted' = Uncounted \ {c} /\ c \in Uncounted
    BY <1>1, <2>1, <2>2, Moved DEF Unwritten
  <2> QED BY <1>1, <1>2, <1>3, <1>4, <1>5, <2>1, <2>3 DEF CInv, Account, CountsErrors
<1>10. CASE EmptyList(c) \/ Save(c)
  <2>1. /\ worker[c] \in {"save", "dump"}
        /\ \E label \in {"dump", "done"} : worker' = [worker EXCEPT ![c] = label]
        /\ UNCHANGED <<completed, failed, unsaved, dropped>>
    BY <1>10 DEF EmptyList, Save
  <2>2. Uncounted' = Uncounted \ {c} /\ c \notin Uncounted
    BY <1>1, <2>1, Moved DEF Unwritten
  <2> QED BY <1>6, <2>1, <2>2
<1>11. CASE SaveFails(c)
  <2>1. /\ worker[c] \in {"save", "dump"}
        /\ UNCHANGED <<completed, failed, dropped>> /\ unsaved' = unsaved + 1
    BY <1>11 DEF SaveFails
  <2>2. CASE CountsErrors
    <3>1. worker' = [worker EXCEPT ![c] = "fail"]
      BY <1>11, <2>2 DEF SaveFails
    <3>2. Uncounted' = Uncounted \cup {c} /\ c \notin Uncounted
      BY <1>1, <2>1, <3>1, Moved DEF Unwritten
    <3>3. dropped = {}
      BY <1>5, <2>2 DEF CountsErrors
    <3> QED BY <1>1, <1>2, <1>3, <1>4, <1>5, <2>1, <2>2, <3>2, <3>3 DEF CInv, Account, CountsErrors
  <2>3. CASE ~CountsErrors
    <3>1. worker' = [worker EXCEPT ![c] = "done"]
      BY <1>11, <2>3 DEF SaveFails
    <3>2. Uncounted' = Uncounted \ {c} /\ c \notin Uncounted
      BY <1>1, <2>1, <3>1, Moved DEF Unwritten
    <3> QED BY <1>1, <1>5, <2>1, <2>3, <3>2 DEF CInv, Account, CountsErrors
  <2> QED BY <2>2, <2>3
<1>12. CASE Fail(c)
  <2>1. /\ worker[c] = "fail" /\ worker' = [worker EXCEPT ![c] = "done"] /\ failed' = failed + 1
        /\ UNCHANGED <<completed, unsaved, dropped>>
    BY <1>12 DEF Fail, FailureCounted
  <2>2. Uncounted' = Uncounted \ {c} /\ c \in Uncounted
    BY <1>1, <2>1, Moved DEF Unwritten
  <2>3. completed' + failed' + Cardinality(dropped') + Cardinality(Uncounted')
          = Cardinality(planned') + (IF CountsErrors' THEN unsaved' ELSE 0)
    BY <1>1, <1>2, <1>3, <1>4, <1>5, <2>1, <2>2 DEF CountsErrors
  <2> QED BY <1>1, <1>5, <2>1, <2>2, <2>3 DEF CInv, Account
<1> QED BY <1>7, <1>8, <1>9, <1>10, <1>11, <1>12 DEF ThreadStep

(* Planning makes all of the run uncounted; submitting and finishing a      *)
(* batch leave it as it is.                                                 *)
LEMMA MainKeepsCInv ==
  ASSUME KInv, CInv, program # "minimal",
         Start \/ Repair \/ MainStep \/ Again \/ End PROVE CInv'
<1> USE DEF counters, history
<1>1. CASE Start \/ End \/ Repair
  <2>1. phase' \in {"down", "plan"} /\ program' = program
    BY <1>1 DEF Start, End, Repair
  <2>2. phase' = "plan" => completed' = 0 /\ failed' = 0 /\ unsaved' = 0 /\ dropped' = {}
    BY <1>1 DEF Start, End, Repair
  <2>3. program # "hybrid" => dropped' = {}
    BY <1>1 DEF Start, End, Repair, CInv, Account
  <2>4. dropped' \cap Uncounted' = {}
    <3>1. CASE Start
      BY <3>1 DEF Start
    <3>2. CASE End
      BY <3>2 DEF End, Uncounted, Idle, Unwritten
    <3>3. CASE Repair
      BY <3>3 DEF Repair, Uncounted, CInv, Account
    <3> QED BY <1>1, <3>1, <3>2, <3>3
  <2> QED BY <2>1, <2>2, <2>3, <2>4 DEF CInv, Account
<1>2. CASE Plan
  <2>1. /\ worker = Idle /\ UNCHANGED worker /\ todo' \subseteq Commands /\ planned' = todo'
        /\ UNCHANGED <<program, counters, unsaved, dropped>>
        /\ phase = "plan" /\ phase' \in {"over", "batch"}
    BY <1>2 DEF Plan, KInv, PoolOnly, Portions
  <2>2. Uncounted' = planned'
    BY <2>1 DEF Uncounted, Idle, Unwritten
  <2>3. completed = 0 /\ failed = 0 /\ unsaved = 0 /\ dropped = {} /\ Cardinality({}) = 0
    BY <2>1, FS_EmptySet DEF CInv, Account
  <2>4. Cardinality(planned') \in Nat
    BY <2>1, Sizes
  <2> QED BY <2>1, <2>2, <2>3, <2>4 DEF CInv, Account, CountsErrors
<1>3. CASE Submit
  <2>1. PICK b \in SUBSET todo :
          todo' = todo \ b
          /\ worker' = [c \in Commands |-> IF c \in b THEN "queued" ELSE "none"]
    BY <1>3, SubmitKeepsKInv
  <2>2. worker = Idle /\ todo \subseteq Commands
    BY <1>3 DEF Submit, KInv, TypeOK, PoolOnly
  <2>3. Uncounted = todo /\ Uncounted' = todo
    BY <2>1, <2>2 DEF Uncounted, Idle, Unwritten
  <2> QED BY <1>3, <2>3, StillKeepsCInv DEF Submit
<1>4. CASE BatchDone
  <2>1. Uncounted = todo /\ Uncounted' = todo
    BY <1>4 DEF BatchDone, Uncounted, Idle, Unwritten
  <2> QED BY <1>4, <2>1, StillKeepsCInv DEF BatchDone
<1>5. CASE OpenList \/ DumpList
  <2>1. Uncounted' = Uncounted
    BY <1>5 DEF OpenList, DumpList, Uncounted
  <2> QED BY <1>5, <2>1, StillKeepsCInv DEF OpenList, DumpList
<1>6. CASE FinalSaveFails \/ Again
  BY <1>6 DEF FinalSaveFails, Again
<1> QED BY <1>1, <1>2, <1>3, <1>4, <1>5, <1>6 DEF MainStep

LEMMA StepKeepsCInv == KInv /\ CInv /\ [Next]_vars => CInv'
<1> SUFFICES ASSUME KInv, CInv, [Next]_vars PROVE CInv'
  OBVIOUS
<1>1. CASE UNCHANGED vars
  BY <1>1 DEF vars, counters, history, CInv, Account, CountsErrors, Uncounted
<1>2. CASE Next /\ program = "minimal"
  <2>1. program' = program
    BY <1>2 DEF Next, Start, Repair, MainStep, Plan, Submit, BatchDone, OpenList, DumpList,
                FinalSaveFails, Again, End, ThreadStep, Take, Answer, OpenFile, WriteFile,
                WriteFails, OpenFailsAtRate, Record, EmptyList, Save, SaveFails, Fail
  <2> QED BY <1>2, <2>1 DEF CInv
<1>3. CASE Next /\ program # "minimal"
  BY <1>3, MainKeepsCInv, ThreadKeepsCInv DEF Next
<1> QED BY <1>1, <1>2, <1>3

(* When a run of any size is over, no command is uncounted: each was        *)
(* completed, failed or dropped once, and once more for each save a thread  *)
(* failed in.                                                               *)
THEOREM EveryoneCounted == Spec => []AllCounted
<1>1. Init => CInv
  BY FS_EmptySet DEF Init, CInv, Account, Uncounted, Idle, Unwritten
<1>2. KInv /\ CInv => AllCounted
  <2> SUFFICES ASSUME KInv, CInv, phase = "over", program # "minimal"
               PROVE  completed + failed + Cardinality(dropped) =
                        Cardinality(planned) + (IF CountsErrors THEN unsaved ELSE 0)
    BY DEF AllCounted
  <2>1. Uncounted = {}
    BY DEF KInv, PoolOnly, Uncounted, Idle, Unwritten
  <2>2. Cardinality(Uncounted) = 0 /\ Cardinality(dropped) \in Nat
    BY <2>1, FS_EmptySet, Sizes DEF KInv, TypeOK
  <2> QED BY <2>2 DEF CInv, Account, KInv, TypeOK
<1> QED BY <1>1, <1>2, AlwaysKInv, StepKeepsCInv, PTL DEF Spec

--------------------------------------------------------------------------------
(***************************************************************************)
(* Proofs about RiskRefinery for any lists of rules and any answers.       *)
(*                                                                         *)
(* The risk and the flags are decided two stages before they are encoded:  *)
(* the invariant says at each stage what the lists and the safety stage    *)
(* have settled by then.                                                   *)
(***************************************************************************)

RuleHolds ==
  command \in Ruled =>
    /\ stage \in {"logic", "encoding", "binary"} =>
         safety.override /\ safety.risk = RuleOf[command]
    /\ stage \in {"encoding", "binary"} => revised = RuleOf[command]
    /\ stage = "binary" => flags = RuleFlags[command]

FindingsHold ==
  command \notin Ruled /\ stage = "binary" =>
    /\ safety.destroys => "DESTRUCTIVE" \in flags
    /\ safety.privileged => "SUDO" \in flags

RefineryInv ==
  /\ RefineryTypeOK /\ RuleHolds /\ FindingsHold
  /\ RulesPrevail /\ FindingsAreEncoded

--------------------------------------------------------------------------------
LEMMA GravestNamed == ASSUME NEW s \in SUBSET (1 .. 5), s # {} PROVE Max(s) \in 1 .. 5
<1>1. \E x \in s : \A y \in s : y <= x
  <2>1. CASE 5 \in s
    BY <2>1
  <2>2. CASE 5 \notin s /\ 4 \in s
    BY <2>2
  <2>3. CASE 5 \notin s /\ 4 \notin s /\ 3 \in s
    BY <2>3
  <2>4. CASE 5 \notin s /\ 4 \notin s /\ 3 \notin s /\ 2 \in s
    BY <2>4
  <2>5. CASE 5 \notin s /\ 4 \notin s /\ 3 \notin s /\ 2 \notin s
    <3>1. \A x \in s : x = 1
      BY <2>5
    <3>2. 1 \in s
      BY <3>1
    <3> QED BY <3>1, <3>2
  <2> QED BY <2>1, <2>2, <2>3, <2>4, <2>5
<1>2. Max(s) \in s
  BY <1>1 DEF Max
<1> QED BY <1>2

(* Whatever a model answers, a level is read from it.                       *)
LEMMA LevelRead == ASSUME NEW answer PROVE Level(answer) \in Levels
<1>1. CASE Named(answer) # {}
  <2>1. Max(Named(answer)) \in 1 .. 5
    BY <1>1, GravestNamed DEF Named
  <2> QED BY <1>1, <2>1 DEF Level, Levels
<1>2. CASE Named(answer) = {}
  <2>1. Risks[3] = "MEDIUM_RISK" /\ Risks[4] = "HIGH_RISK" /\ Risks[5] = "CRITICAL"
    BY DEF Risks
  <2>2. {"MEDIUM_RISK", "HIGH_RISK", "CRITICAL"} \subseteq Levels
    BY <2>1 DEF Levels
  <2> QED BY <1>2, <2>2 DEF Level
<1> QED BY <1>1, <1>2

LEMMA MediumIsLevel == "MEDIUM_RISK" \in Levels /\ NoSafety \in Safety
<1>1. Risks[3] = "MEDIUM_RISK"
  BY DEF Risks
<1>2. "MEDIUM_RISK" \in Levels
  BY <1>1 DEF Levels
<1> QED BY <1>2 DEF NoSafety, Safety

LEMMA RuleIsLevel == \A c \in Ruled : RuleOf[c] \in Levels /\ RuleFlags[c] \subseteq FlagNames
BY RefineryAssumption DEF Ruled

LEMMA InitRefineryInv == RefineryInit => RefineryInv
<1> SUFFICES ASSUME RefineryInit PROVE RefineryInv
  OBVIOUS
<1>1. RefineryTypeOK
  BY MediumIsLevel DEF RefineryInit, RefineryTypeOK, Stages
<1>2. Analysed = {}
  BY DEF RefineryInit, Analysed
<1> QED BY <1>1, <1>2 DEF RefineryInit, RefineryInv, RuleHolds, FindingsHold,
                       RulesPrevail, FindingsAreEncoded

--------------------------------------------------------------------------------
(* A command that begins or ends has nothing settled yet.                   *)
LEMMA BegunSettlesNothing ==
  ASSUME NEW c \in CommandNames, NEW next \in {"idle", "parsing"}, Begun(c, next)
  PROVE  /\ command' \in CommandNames /\ stage' \in Stages /\ functions' \in BOOLEAN
         /\ safety' \in Safety /\ revised' \in Levels /\ flags' \subseteq FlagNames
         /\ RuleHolds' /\ FindingsHold'
BY MediumIsLevel DEF Begun, Stages, RuleHolds, FindingsHold

LEMMA BeginKeepsRefineryInv ==
  ASSUME RefineryInv, NEW c \in CommandNames, Begin(c) PROVE RefineryInv'
BY BegunSettlesNothing
   DEF Begin, RefineryInv, RefineryTypeOK, stats, RulesPrevail, FindingsAreEncoded, Analysed

LEMMA GiveUpKeepsRefineryInv == ASSUME RefineryInv, GiveUp PROVE RefineryInv'
<1> USE DEF RefineryInv, RefineryTypeOK, GiveUp, stats
<1>1. /\ command' \in CommandNames /\ stage' \in Stages /\ functions' \in BOOLEAN
      /\ safety' \in Safety /\ revised' \in Levels /\ flags' \subseteq FlagNames
      /\ RuleHolds' /\ FindingsHold'
  BY BegunSettlesNothing
<1>2. Analysed' \subseteq Analysed /\ \A c \in Analysed' : analyses'[c] = analyses[c]
  BY DEF Analysed
<1>3. RulesPrevail' /\ FindingsAreEncoded'
  BY <1>2 DEF RulesPrevail, FindingsAreEncoded
<1> QED BY <1>1, <1>3

LEMMA ParseKeepsRefineryInv ==
  ASSUME RefineryInv, NEW onFiles \in BOOLEAN, Parse(onFiles) PROVE RefineryInv'
BY DEF Parse, RefineryInv, RefineryTypeOK, Stages, stats, RuleHolds, FindingsHold, RulesPrevail,
       FindingsAreEncoded, Analysed

(* A list decides for its commands, before any model is asked.              *)
LEMMA AssessKeepsRefineryInv == ASSUME RefineryInv, NEW answer, Assess(answer) PROVE RefineryInv'
<1> USE DEF RefineryInv, RefineryTypeOK, Assess
<1>1. safety' \in Safety
  BY LevelRead, RuleIsLevel DEF Assessed, Safety, Destructive, Privileged
<1>2. RefineryTypeOK'
  BY <1>1 DEF Stages
<1>3. RuleHolds' /\ FindingsHold'
  BY DEF RuleHolds, FindingsHold, Assessed
<1> QED BY <1>2, <1>3 DEF RulesPrevail, FindingsAreEncoded, Analysed

LEMMA ReviewKeepsRefineryInv == ASSUME RefineryInv, NEW answer, Review(answer) PROVE RefineryInv'
<1> USE DEF RefineryInv, RefineryTypeOK, Review, stats
<1>1. revised' \in Levels
  BY LevelRead DEF Safety
<1>2. RefineryTypeOK'
  BY <1>1 DEF Stages
<1>3. RuleHolds' /\ FindingsHold'
  BY DEF RuleHolds, FindingsHold
<1> QED BY <1>2, <1>3 DEF RulesPrevail, FindingsAreEncoded, Analysed

LEMMA ChooseFlagsKeepsRefineryInv ==
  ASSUME RefineryInv, NEW named \in FlagAnswers, ChooseFlags(named) PROVE RefineryInv'
<1> USE DEF RefineryInv, RefineryTypeOK, ChooseFlags, stats
<1>1. flags' \subseteq FlagNames
  BY RuleIsLevel, RefineryAssumption DEF Inferred, FlagNames
<1>2. RefineryTypeOK'
  BY <1>1 DEF Stages
<1>3. RuleHolds' /\ FindingsHold'
  BY DEF RuleHolds, FindingsHold, Inferred
<1> QED BY <1>2, <1>3 DEF RulesPrevail, FindingsAreEncoded, Analysed

(* What is kept of a command is what the stages had settled for it.         *)
LEMMA EncodeKeepsRefineryInv == ASSUME RefineryInv, Encode PROVE RefineryInv'
<1> USE DEF RefineryInv, RefineryTypeOK, Encode
<1> DEFINE new == [risk |-> revised, flags |-> flags, safety |-> safety]
<1>1. /\ command' \in CommandNames /\ stage' \in Stages /\ functions' \in BOOLEAN
      /\ safety' \in Safety /\ revised' \in Levels /\ flags' \subseteq FlagNames
      /\ RuleHolds' /\ FindingsHold'
  BY BegunSettlesNothing
<1>2. new \in Analysis
  BY DEF Analysis
<1>3. distribution' \in [Levels -> Nat]
  BY DEF Counted
<1>4. RefineryTypeOK'
  BY <1>1, <1>2, <1>3
<1>5. \A c \in CommandNames : analyses'[c] = IF c = command THEN new ELSE analyses[c]
  OBVIOUS
<1>6. RulesPrevail'
  BY <1>5 DEF RulesPrevail, Analysed, RuleHolds
<1>7. FindingsAreEncoded'
  BY <1>5 DEF FindingsAreEncoded, Analysed, FindingsHold
<1> QED BY <1>1, <1>4, <1>6, <1>7

LEMMA StepKeepsRefineryInv == RefineryInv /\ [RefineryNext]_refineryVars => RefineryInv'
<1> SUFFICES ASSUME RefineryInv, [RefineryNext]_refineryVars PROVE RefineryInv'
  OBVIOUS
<1>1. CASE UNCHANGED refineryVars
  BY <1>1 DEF refineryVars, work, stats, RefineryInv, RefineryTypeOK, RuleHolds, FindingsHold,
              RulesPrevail,
              FindingsAreEncoded, Analysed
<1>2. CASE RefineryNext
  BY <1>2, BeginKeepsRefineryInv, GiveUpKeepsRefineryInv, ParseKeepsRefineryInv,
     AssessKeepsRefineryInv, ReviewKeepsRefineryInv,
     ChooseFlagsKeepsRefineryInv, EncodeKeepsRefineryInv DEF RefineryNext
<1> QED BY <1>1, <1>2

LEMMA AlwaysRefineryInv == RefinerySpec => []RefineryInv
BY InitRefineryInv, StepKeepsRefineryInv, PTL DEF RefinerySpec

(* Every variable of the refinery keeps its type.                           *)
THEOREM RefineryTypes == RefinerySpec => []RefineryTypeOK
BY AlwaysRefineryInv, PTL DEF RefineryInv

(* Whatever the models answer, a command of a list is encoded with the risk *)
(* and the flags of its list.                                               *)
THEOREM RulesDecide == RefinerySpec => []RulesPrevail
BY AlwaysRefineryInv, PTL DEF RefineryInv

(* What the safety stage found of an unlisted command is in its flags.      *)
THEOREM FindingsSurvive == RefinerySpec => []FindingsAreEncoded
BY AlwaysRefineryInv, PTL DEF RefineryInv
================================================================================
