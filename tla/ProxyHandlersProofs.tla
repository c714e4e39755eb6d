-------------------------- MODULE ProxyHandlersProofs --------------------------
(***************************************************************************)
(* Proofs about the two handlers of the proxy.                             *)
(*                                                                         *)
(* ResponseTap is proved for responses of any length, cut anywhere.        *)
(*                                                                         *)
(* The tap keeps a tail of what it has seen: what makes the rows right is  *)
(* that this tail starts where a data line starts, and that every tool in  *)
(* the text before the place it has reached is in the sequence already.    *)
(***************************************************************************)
EXTENDS ResponseTap, UpstreamRetry, TLAPS

RowFits(row) ==
  /\ row.kind = "complete" =>
       /\ checks = 1
       /\ request.stream \/ ~request.compressed =>
            EventsOf(row.calls) = ToolEvents /\ Complete(0, row.text) = 1 .. Len(wire)
  /\ row.kind = "aborted" => EventsOf(row.calls) = ToolEvents \cap Complete(0, row.text)

RowsFit == Len(rows) <= 1 /\ \A k \in 1 .. Len(rows) : RowFits(rows[k])

BeforeStream ==
  phase \in {"sending", "buffering", "created"} =>
    /\ rows = <<>> /\ calls = {} /\ ~done /\ checks = 0
    /\ got = 0 /\ tapped = 0 /\ buf = 0
    /\ phase = "buffering" => ~request.stream

TailStartsALine == \E k \in Nat : buf = 3 * k

InStream ==
  phase \in {"reading", "yielded"} =>
    /\ tapped <= got
    /\ done => CanTap
    /\ ~done => /\ rows = <<>> /\ checks = 0
                /\ buf <= tapped /\ TailStartsALine
                /\ CanTap => EventsOf(calls) = ToolEvents \cap Complete(0, tapped)

IInv == TypeOK /\ wire \in Wires /\ RowsFit /\ BeforeStream /\ InStream

--------------------------------------------------------------------------------
LEMMA WiresAreSeqs == wire \in Wires => wire \in Seq(EventKinds)
<1> SUFFICES ASSUME wire \in Wires PROVE wire \in Seq(EventKinds)
  OBVIOUS
<1>1. PICK n \in 0 .. MaxEvents : wire \in [1 .. n -> EventKinds]
  BY DEF Wires
<1> QED BY <1>1, TapAssumption

(* Only the last event of a response may be message_stop.                   *)
LEMMA StopIsLast ==
  ASSUME wire \in Wires
  PROVE  /\ Len(wire) \in Nat
         /\ \A i \in 1 .. Len(wire) : wire[i] = "stop" => i = Len(wire)
<1>1. PICK n \in 0 .. MaxEvents :
        wire \in {w \in [1 .. n -> EventKinds] : \A i \in 1 .. (n - 1) : w[i] # "stop"}
  BY DEF Wires
<1>2. n \in Nat /\ wire \in Seq(EventKinds) /\ Len(wire) = n
  BY <1>1, TapAssumption
<1> QED BY <1>1, <1>2

(* Going on from the last newline misses no event and invents none.         *)
LEMMA Resumed ==
  ASSUME Len(wire) \in Nat, TailStartsALine, tapped \in Nat, got \in Nat,
         buf <= tapped, tapped <= got
  PROVE  Complete(0, got) = Complete(0, tapped) \cup Complete(buf, got)
<1>1. PICK k \in Nat : buf = 3 * k
  BY DEF TailStartsALine
<1> QED BY <1>1 DEF Complete

(* Scanning adds exactly the events scanned.                                *)
Scanned(s, new) == {[scan |-> s, event |-> i] : i \in new}

LEMMA ScanAdds ==
  ASSUME NEW cs, NEW s, NEW new
  PROVE  EventsOf(cs \cup Scanned(s, new)) = EventsOf(cs) \cup new
<1>1. \A i \in new : [scan |-> s, event |-> i].event = i
  OBVIOUS
<1> QED BY <1>1 DEF EventsOf, Scanned

(* A parse step leaves every tool of the text it has reached in the         *)
(* sequence; once message_stop is in it, that is the whole response.        *)
LEMMA ParseFinds ==
  ASSUME IInv, Parse, phase = "yielded", CanTap, ~done, UNCHANGED <<wire, got>>
  PROVE  /\ tapped' = got /\ tapped' \in Nat
         /\ scans' \in Nat /\ calls' \in SUBSET CallsRange
         /\ EventsOf(calls') = ToolEvents \cap Complete(0, got)
         /\ Ended => Complete(0, got) = 1 .. Len(wire) /\ EventsOf(calls') = ToolEvents
<1> USE DEF IInv, TypeOK
<1>1. Len(wire) \in Nat /\ \A i \in 1 .. Len(wire) : wire[i] = "stop" => i = Len(wire)
  BY StopIsLast
<1>2. Complete(0, got) = Complete(0, tapped) \cup Complete(buf, got)
  BY <1>1, Resumed DEF InStream
<1>3. EventsOf(calls') = EventsOf(calls) \cup (ToolEvents \cap Complete(buf, got))
  <2>1. calls' = calls \cup Scanned(scans + 1, ToolEvents \cap Complete(buf, got))
    BY DEF Parse, Scanned
  <2> QED BY <2>1, ScanAdds
<1>4. EventsOf(calls') = ToolEvents \cap Complete(0, got)
  BY <1>2, <1>3 DEF InStream
<1>5. calls' \in SUBSET CallsRange
  BY <1>1 DEF Parse, CallsRange, ToolEvents
<1>6. ASSUME Ended PROVE Complete(0, got) = 1 .. Len(wire)
  <2>1. Len(wire) \in Complete(buf, got)
    BY <1>1, <1>6 DEF Ended, Complete
  <2> QED BY <1>1, <2>1 DEF Complete
<1> QED BY <1>4, <1>5, <1>6 DEF Parse, ToolEvents

Kinds == {"skipped", "aborted", "complete"}
RowType == [kind : Kinds, calls : SUBSET CallsRange, text : Nat]

(* One row written into an empty log is all of it.                          *)
LEMMA FirstRow ==
  ASSUME rows = <<>>, NEW row, Written(row), row \in RowType
  PROVE  rows' \in Seq(RowType) /\ Len(rows') = 1 /\ rows'[1] = row
BY DEF Written

LEMMA NoRow == rows = <<>> => Len(rows) = 0 /\ rows \in Seq(RowType)
OBVIOUS

LEMMA InitIInv == Init => IInv
<1> SUFFICES ASSUME Init PROVE IInv
  OBVIOUS
<1>1. TypeOK
  BY WiresAreSeqs, NoRow DEF Init, TypeOK, CallsRange, RowType, Kinds
<1>2. RowsFit
  BY NoRow DEF Init, RowsFit
<1> QED BY <1>1, <1>2 DEF Init, IInv, BeforeStream, InStream

--------------------------------------------------------------------------------
(* A fitting row, or none, added to the log of a turn that has no row yet.  *)
LEMMA RowAdded ==
  ASSUME NEW row, row \in RowType, rows = <<>>, UNCHANGED <<request, wire>>,
         Written(row) \/ rows' = rows,
         row.kind = "complete" =>
           /\ checks' = 1
           /\ request.stream \/ ~request.compressed =>
                EventsOf(row.calls) = ToolEvents /\ Complete(0, row.text) = 1 .. Len(wire),
         row.kind = "aborted" => EventsOf(row.calls) = ToolEvents \cap Complete(0, row.text)
  PROVE  RowsFit' /\ rows' \in Seq(RowType)
<1>1. CASE Written(row)
  <2>1. rows' \in Seq(RowType) /\ Len(rows') = 1 /\ rows'[1] = row
    BY <1>1, FirstRow
  <2>2. RowFits(row)'
    BY DEF RowFits, ToolEvents, Complete
  <2>3. \A k \in 1 .. Len(rows') : k = 1
    BY <2>1
  <2> QED BY <2>1, <2>2, <2>3 DEF RowsFit, RowFits
<1>2. CASE rows' = rows
  BY <1>2, NoRow DEF RowsFit
<1> QED BY <1>1, <1>2

LEMMA Closed == phase' = "closed" => BeforeStream' /\ InStream'
BY DEF BeforeStream, InStream

LEMMA SendKeepsIInv == ASSUME IInv, SendFails \/ SendSucceeds PROVE IInv'
<1> USE DEF IInv, TypeOK, NoTap
<1>1. CASE SendFails
  <2> DEFINE row == [kind |-> "skipped", calls |-> {}, text |-> tapped]
  <2>1. row \in RowType
    BY DEF RowType, Kinds, CallsRange
  <2>2. Written(row) \/ rows' = rows
    BY <1>1 DEF SendFails, Row, NotWritten
  <2>3. rows = <<>>
    BY <1>1 DEF SendFails, BeforeStream
  <2>4. RowsFit' /\ rows' \in Seq(RowType) /\ BeforeStream' /\ InStream'
    BY <1>1, <2>1, <2>2, <2>3, RowAdded, Closed DEF SendFails
  <2> QED BY <1>1, <2>4 DEF SendFails, RowType, Kinds
<1>2. CASE SendSucceeds
  <2>1. RowsFit'
    BY <1>2 DEF SendSucceeds, RowsFit, RowFits, ToolEvents, Complete
  <2>2. BeforeStream' /\ InStream'
    BY <1>2 DEF SendSucceeds, BeforeStream, InStream
  <2> QED BY <1>2, <2>1, <2>2 DEF SendSucceeds
<1> QED BY <1>1, <1>2

LEMMA ReadBodyKeepsIInv == ASSUME IInv, ReadBody PROVE IInv'
<1> USE DEF IInv, TypeOK, ReadBody
<1>1. Len(wire) \in Nat /\ Atoms \in Nat
  BY StopIsLast DEF Atoms
<1>2. rows = <<>> /\ checks = 0 /\ ~done /\ calls = {}
  BY DEF BeforeStream
<1>3. CASE request.meta
  <2>1. tapped' = Atoms /\ checks' = 1
    BY <1>2, <1>3
  <2>2. calls' \in SUBSET CallsRange
    BY <1>1, <1>3 DEF CallsRange, ToolEvents
  <2>3. ~request.compressed => EventsOf(calls') = ToolEvents
    <3> SUFFICES ASSUME ~request.compressed PROVE EventsOf(calls') = ToolEvents
      OBVIOUS
    <3>1. calls' = {} \cup Scanned(1, ToolEvents)
      BY <1>3 DEF Scanned
    <3>2. EventsOf({} \cup Scanned(1, ToolEvents)) = EventsOf({}) \cup ToolEvents
      BY ScanAdds
    <3>3. EventsOf({}) = {}
      BY DEF EventsOf
    <3> QED BY <3>1, <3>2, <3>3
  <2>4. Complete(0, Atoms) = 1 .. Len(wire)
    BY <1>1 DEF Complete, Atoms
  <2> DEFINE row == [kind |-> "complete", calls |-> calls', text |-> Atoms]
  <2>5. row \in RowType
    BY <1>1, <2>2 DEF RowType, Kinds
  <2>6. Written(row) \/ rows' = rows
    BY <1>3, <2>1 DEF Row, NotWritten
  <2>7. ~request.stream
    BY DEF BeforeStream
  <2>8. RowsFit' /\ rows' \in Seq(RowType) /\ BeforeStream' /\ InStream'
    BY <1>2, <2>1, <2>3, <2>4, <2>5, <2>6, <2>7, RowAdded, Closed
  <2> QED BY <1>1, <2>1, <2>2, <2>8 DEF RowType, Kinds
<1>4. CASE ~request.meta
  <2>1. RowsFit' /\ BeforeStream' /\ InStream'
    BY <1>2, <1>4, NoRow DEF RowsFit, BeforeStream, InStream
  <2> QED BY <1>1, <1>4, <2>1
<1> QED BY <1>3, <1>4

--------------------------------------------------------------------------------
(* Steps that write no row and parse nothing.                               *)
QuietStep ==
  \/ ReadBodyFails \/ StartStream \/ AbandonStream \/ PassChunk
  \/ \E n \in 1 .. Atoms : Chunk(n)

LEMMA QuietKeepsIInv == ASSUME IInv, QuietStep PROVE IInv'
<1> USE DEF IInv, TypeOK, NoTap
<1>1. UNCHANGED <<request, wire, tapped, buf, scans, calls, done, checks, rows>>
  BY DEF QuietStep, ReadBodyFails, StartStream, AbandonStream, PassChunk, Chunk
<1>2. RowsFit'
  BY <1>1 DEF RowsFit, RowFits, ToolEvents, Complete
<1>3. TypeOK'
  BY <1>1 DEF QuietStep, ReadBodyFails, StartStream, AbandonStream, PassChunk, Chunk
<1>4. CASE phase' = "closed"
  BY <1>1, <1>2, <1>3, <1>4 DEF BeforeStream, InStream
<1>5. CASE StartStream
  <2>1. TailStartsALine /\ Complete(0, 0) = {} /\ EventsOf({}) = {}
    BY <1>5 DEF StartStream, BeforeStream, TailStartsALine, Complete, EventsOf
  <2>2. InStream'
    BY <1>1, <1>5, <2>1 DEF StartStream, BeforeStream, InStream, TailStartsALine, CanTap,
                            ToolEvents, Complete, EventsOf
  <2> QED BY <1>1, <1>2, <1>3, <1>5, <2>2 DEF StartStream, BeforeStream
<1>6. CASE PassChunk \/ \E n \in 1 .. Atoms : Chunk(n)
  <2>1. got' \in Nat /\ tapped' <= got' /\ phase' \in {"reading", "yielded"}
        /\ phase \in {"reading", "yielded"}
    BY <1>1, <1>6 DEF PassChunk, Chunk, InStream
  <2>2. InStream'
    BY <1>1, <2>1 DEF InStream, TailStartsALine, CanTap, ToolEvents, Complete, EventsOf
  <2> QED BY <1>1, <1>2, <1>3, <2>1, <2>2 DEF BeforeStream
<1> QED BY <1>4, <1>5, <1>6 DEF QuietStep, ReadBodyFails, AbandonStream

(* The finally block adds at most the one row the turn still lacks.         *)
LEMMA FinallyKeepsIInv ==
  ASSUME IInv, phase \in {"reading", "yielded"}, Finally, UNCHANGED <<request, wire, done>>,
         tapped' \in Nat, calls' \in SUBSET CallsRange,
         done => checks' = checks,
         ~done /\ CanTap => EventsOf(calls') = ToolEvents \cap Complete(0, tapped')
  PROVE  RowsFit' /\ rows' \in Seq(RowType) /\ BeforeStream' /\ InStream'
         /\ upstream' \in {"none", "open", "closed"}
<1> USE DEF IInv, TypeOK
<1>0. phase' = "closed" /\ upstream' \in {"none", "open", "closed"}
  BY DEF Finally
<1>1. CASE CanTap /\ ~done
  <2> DEFINE row == [kind |-> "aborted", calls |-> calls', text |-> tapped']
  <2>1. row \in RowType
    BY DEF RowType, Kinds
  <2>2. Written(row) \/ rows' = rows
    BY <1>1 DEF Finally, Row, NotWritten, CanTap
  <2>3. rows = <<>>
    BY <1>1 DEF InStream
  <2> QED BY <1>0, <1>1, <2>1, <2>2, <2>3, RowAdded, Closed
<1>2. CASE ~CanTap /\ ~done
  <2> DEFINE row == [kind |-> "skipped", calls |-> {}, text |-> tapped']
  <2>1. row \in RowType
    BY DEF RowType, Kinds
  <2>2. Written(row) \/ rows' = rows
    BY <1>2 DEF Finally, Row, NotWritten, CanTap
  <2>3. rows = <<>>
    BY <1>2 DEF InStream
  <2> QED BY <1>0, <2>1, <2>2, <2>3, RowAdded, Closed
<1>3. CASE done
  <2>1. CanTap
    BY <1>3 DEF InStream
  <2>2. UNCHANGED <<rows, checks>>
    BY <1>3, <2>1 DEF Finally
  <2>3. RowsFit'
    BY <2>2 DEF RowsFit, RowFits, ToolEvents, Complete
  <2> QED BY <1>0, <2>2, <2>3 DEF BeforeStream, InStream, RowType, Kinds
<1> QED BY <1>1, <1>2, <1>3

LEMMA EndStreamKeepsIInv == ASSUME IInv, EndStream PROVE IInv'
<1> USE DEF IInv, TypeOK
<1>1. phase \in {"reading", "yielded"} /\ phase' = "closed"
  BY DEF EndStream, Finally
<1>2. UNCHANGED <<request, wire, got, tapped, buf, scans, calls, done>> /\ Finally
  BY DEF EndStream
<1>3. checks' \in Nat /\ (done => checks' = checks)
  BY DEF EndStream
<1>4. RowsFit' /\ rows' \in Seq(RowType) /\ BeforeStream' /\ InStream'
      /\ upstream' \in {"none", "open", "closed"}
  BY <1>1, <1>2, <1>3, FinallyKeepsIInv DEF InStream
<1> QED BY <1>1, <1>2, <1>3, <1>4 DEF RowType, Kinds

LEMMA NewTailStartsALine ==
  ASSUME NEW n \in Nat PROVE LastLineStart(n) <= n /\ \E k \in Nat : LastLineStart(n) = 3 * k
<1>1. n \div 3 \in Nat /\ 3 * (n \div 3) <= n
  OBVIOUS
<1> QED BY <1>1 DEF LastLineStart

LEMMA TapChunkKeepsIInv == ASSUME IInv, TapChunk PROVE IInv'
<1> USE DEF IInv, TypeOK, TapChunk
<1>1. /\ tapped' = got /\ scans' \in Nat /\ calls' \in SUBSET CallsRange
      /\ EventsOf(calls') = ToolEvents \cap Complete(0, got)
  BY ParseFinds
<1>2. buf' \in Nat /\ buf' <= tapped' /\ TailStartsALine'
  <2>1. PICK k \in Nat : LastLineStart(got) = 3 * k
    BY NewTailStartsALine
  <2>2. LastLineStart(got) <= got
    BY NewTailStartsALine
  <2> QED BY <1>1, <2>1, <2>2 DEF TailStartsALine
<1>3. RowsFit'
  BY DEF RowsFit, RowFits, ToolEvents, Complete
<1>4. InStream'
  BY <1>1, <1>2 DEF InStream, CanTap, ToolEvents, Complete
<1> QED BY <1>1, <1>2, <1>3, <1>4 DEF BeforeStream

(* The row written at message_stop is the only one, and sees everything.    *)
LEMMA TapStopKeepsIInv == ASSUME IInv, TapStop PROVE IInv'
<1> USE DEF IInv, TypeOK, TapStop
<1>1. /\ tapped' = got /\ scans' \in Nat /\ calls' \in SUBSET CallsRange
      /\ Complete(0, got) = 1 .. Len(wire) /\ EventsOf(calls') = ToolEvents
  BY ParseFinds
<1> DEFINE row == [kind |-> "complete", calls |-> calls', text |-> got]
<1>2. rows = <<>> /\ checks' = 1
  BY DEF InStream
<1>3. row \in RowType /\ Written(row)
  BY <1>1 DEF RowType, Kinds, Row
<1>4. RowsFit' /\ rows' \in Seq(RowType)
  BY <1>1, <1>2, <1>3, RowAdded
<1>5. InStream' /\ BeforeStream'
  BY <1>1 DEF InStream, BeforeStream, CanTap
<1> QED BY <1>1, <1>2, <1>4, <1>5 DEF RowType, Kinds

LEMMA TapStopFailsKeepsIInv == ASSUME IInv, TapStopFails PROVE IInv'
<1> USE DEF IInv, TypeOK, TapStopFails
<1>1. /\ tapped' = got /\ scans' \in Nat /\ calls' \in SUBSET CallsRange
      /\ EventsOf(calls') = ToolEvents \cap Complete(0, got)
  BY ParseFinds
<1>2. RowsFit' /\ rows' \in Seq(RowType) /\ BeforeStream' /\ InStream'
      /\ upstream' \in {"none", "open", "closed"}
  BY <1>1, FinallyKeepsIInv
<1> QED BY <1>1, <1>2 DEF Finally, RowType, Kinds

LEMMA StepKeepsIInv == IInv /\ [Next]_vars => IInv'
<1> SUFFICES ASSUME IInv, [Next]_vars PROVE IInv'
  OBVIOUS
<1>1. CASE UNCHANGED vars
  BY <1>1 DEF vars, IInv, TypeOK, RowsFit, RowFits, BeforeStream, InStream, TailStartsALine,
              CanTap, ToolEvents, Complete
<1>2. CASE Next
  <2>1. SendFails \/ SendSucceeds \/ ReadBody \/ QuietStep \/ EndStream \/ TapChunk
        \/ TapStop \/ TapStopFails \/ UNCHANGED vars
    BY <1>2 DEF Next, Upstream, Generator, Finished, QuietStep
  <2> QED BY <1>1, <2>1, SendKeepsIInv, ReadBodyKeepsIInv, QuietKeepsIInv, EndStreamKeepsIInv,
             TapChunkKeepsIInv, TapStopKeepsIInv, TapStopFailsKeepsIInv
<1> QED BY <1>1, <1>2

LEMMA AlwaysIInv == Spec => []IInv
BY InitIInv, StepKeepsIInv, PTL DEF Spec

(* Every variable of a turn keeps its type.                                 *)
THEOREM TypeCorrect == Spec => []TypeOK
BY AlwaysIInv, PTL DEF IInv

(* However the record, the stream and the client fail, a turn never has two *)
(* rows in the decision log.                                                *)
THEOREM OneRow == Spec => []OneRowPerTurn
<1>1. IInv => OneRowPerTurn
  BY DEF IInv, RowsFit, OneRowPerTurn
<1> QED BY <1>1, AlwaysIInv, PTL

(* For a response of any length cut into any chunks, the row written at     *)
(* message_stop names every tool of it and was judged on its whole text.    *)
THEOREM CompleteRows == Spec => []CompleteRowIsComplete
<1>1. IInv => CompleteRowIsComplete
  BY DEF IInv, RowsFit, RowFits, CompleteRowIsComplete
<1> QED BY <1>1, AlwaysIInv, PTL

(* The row of a stream that broke off names exactly the calls in the text   *)
(* that was judged.                                                         *)
THEOREM AbortedRows == Spec => []AbortedRowIsPrefix
<1>1. IInv => AbortedRowIsPrefix
  BY DEF IInv, RowsFit, RowFits, AbortedRowIsPrefix
<1> QED BY <1>1, AlwaysIInv, PTL

(* A turn recorded as complete was judged exactly once.                     *)
THEOREM JudgedOnce == Spec => []CheckedOnce
<1>1. IInv => CheckedOnce
  BY DEF IInv, RowsFit, RowFits, CheckedOnce
<1> QED BY <1>1, AlwaysIInv, PTL

--------------------------------------------------------------------------------
(***************************************************************************)
(* Proofs about UpstreamRetry for every number of attempts.                *)
(***************************************************************************)

(* What the phases say of the counters.  The number of sends follows from   *)
(* the failed attempts of the loop that runs, and while an unsafe request   *)
(* is still being sent, upstream has not carried it out.                    *)
PhaseInv ==
  /\ stage = "sending" =>
       /\ sends = attempt
       /\ open = {} /\ bytesFrom = {}
       /\ ~forwarded.safe => executions = 0
  /\ stage = "headers" => bytesFrom = {}
  /\ stage \in {"headers", "body"} =>
       /\ sends = retryCount + 1
       /\ first = sends /\ open = {first} /\ bytesFrom \subseteq {sends}
  /\ stage = "resending" =>
       /\ sends = attempt + 1
       /\ forwarded.safe /\ bytesFrom = {}
  /\ stage = "rebody" => forwarded.safe /\ sends > 0 /\ bytesFrom \subseteq {sends}

RetryInv == PassTypeOK /\ PhaseInv /\ UnsafeOnce /\ OneBody /\ AttemptsBounded /\ AllClosed

LEMMA InitRetryInv == PassInit => RetryInv
BY RetryAssumption DEF PassInit, RetryInv, PassTypeOK, PhaseInv, UnsafeOnce, OneBody,
   AttemptsBounded, AllClosed

LEMMA StepKeepsRetryInv == RetryInv /\ [PassNext]_passVars => RetryInv'
<1> SUFFICES ASSUME RetryInv, [PassNext]_passVars PROVE RetryInv'
  OBVIOUS
<1> USE RetryAssumption DEF RetryInv, PassTypeOK, PhaseInv, UnsafeOnce, OneBody,
      AttemptsBounded, AllClosed
<1>1. CASE Answered
  <2>1. CASE stage = "sending"
    <3>1. sends' = sends + 1 /\ open' = {sends'} /\ bytesFrom' = {}
      BY <1>1, <2>1 DEF Answered
    <3> QED BY <1>1, <2>1, <3>1 DEF Answered
  <2>2. CASE stage = "resending"
    <3>1. open' \subseteq 1 .. sends'
      BY <1>1, <2>2 DEF Answered
    <3> QED BY <1>1, <2>2, <3>1 DEF Answered
  <2> QED BY <1>1, <2>1, <2>2 DEF Answered, Sending
<1>2. ASSUME NEW kind \in ErrorKinds, SendError(kind) PROVE RetryInv'
  <2>1. PICK n \in MayHaveExecuted(kind) : executions' = executions + n
    BY <1>2 DEF SendError
  <2>2. n \in {0, 1} /\ (kind = "connect" => n = 0)
    BY <2>1 DEF MayHaveExecuted
  <2>3. CASE SendAgain(kind)
    <3>1. attempt + 1 < MaxAttempts /\ (kind = "connect" \/ forwarded.safe)
      BY <2>3 DEF SendAgain, ShouldRetry
    <3>2. /\ sends' = sends + 1 /\ attempt' = attempt + 1
          /\ stage' = stage /\ open' = open /\ Sending
          /\ UNCHANGED <<forwarded, retryCount, first, bytesFrom>>
      BY <1>2, <2>3 DEF SendError
    <3>3. PassTypeOK'
      BY <2>1, <2>2, <3>1, <3>2
    <3> QED BY <2>1, <2>2, <3>1, <3>2, <3>3 DEF Sending
  <2>4. CASE ~SendAgain(kind)
    BY <1>2, <2>1, <2>2, <2>4 DEF SendError, Sending
  <2> QED BY <2>3, <2>4
<1>3. CASE SendCancelled
  BY <1>3 DEF SendCancelled, Sending
<1>4. CASE StartBody
  BY <1>4 DEF StartBody
<1>5. CASE AbandonBody
  BY <1>5 DEF AbandonBody
<1>6. CASE Bytes
  <2>1. bytesFrom' = bytesFrom \cup {sends} /\ bytesFrom \subseteq {sends}
    BY <1>6 DEF Bytes
  <2>2. bytesFrom' = {sends}
    BY <2>1
  <2>3. sends \in 1 .. sends
    BY <1>6 DEF Bytes
  <2> QED BY <1>6, <2>2, <2>3 DEF Bytes
<1>7. CASE StreamEnds
  BY <1>7 DEF StreamEnds
<1>8. ASSUME NEW kind \in ErrorKinds \ {"connect"}, BodyFails(kind) PROVE RetryInv'
  <2>1. CASE BodyRetry(kind)
    BY <1>8, <2>1 DEF BodyFails, BodyRetry, ShouldRetry, ErrorKinds
  <2>2. CASE ~BodyRetry(kind)
    BY <1>8, <2>2 DEF BodyFails
  <2> QED BY <2>1, <2>2
<1>9. CASE RebodyFails
  BY <1>9 DEF RebodyFails
<1>10. CASE UNCHANGED passVars
  BY <1>10 DEF passVars
<1> QED
  BY <1>1, <1>2, <1>3, <1>4, <1>5, <1>6, <1>7, <1>8, <1>9, <1>10 DEF PassNext, PassOver

LEMMA AlwaysRetryInv == PassSpec => []RetryInv
BY InitRetryInv, StepKeepsRetryInv, PTL DEF PassSpec

(* Every variable keeps its type.                                           *)
THEOREM RetryTypes == PassSpec => []PassTypeOK
BY AlwaysRetryInv, PTL DEF RetryInv

(* A request whose method is not safe is carried out at most once, for any  *)
(* limit of attempts.                                                       *)
THEOREM UnsafeNeverRepeated == PassSpec => []UnsafeOnce
BY AlwaysRetryInv, PTL DEF RetryInv

(* The client never gets a body pieced together from two responses.         *)
THEOREM BodiesNeverMixed == PassSpec => []OneBody
BY AlwaysRetryInv, PTL DEF RetryInv

(* However its stream fails and is taken up again, a generator that started *)
(* leaves no response open.                                                 *)
THEOREM ResponsesClosed == PassSpec => []AllClosed
BY AlwaysRetryInv, PTL DEF RetryInv

(* The two places that send again stay within one more than the limit.      *)
THEOREM SendsBounded == PassSpec => []AttemptsBounded
BY AlwaysRetryInv, PTL DEF RetryInv

(* A request is not sent again once the client has bytes of an answer.      *)
THEOREM NeverResentAfterBytes == PassSpec => NothingSentAfterBytes
<1>1. RetryInv /\ [PassNext]_passVars => [bytesFrom # {} => sends' = sends]_passVars
  BY DEF RetryInv, PhaseInv, PassTypeOK, PassNext, passVars, Answered, SendError, SendCancelled,
         Sending,
     StartBody, AbandonBody, Bytes, StreamEnds, BodyFails, RebodyFails, PassOver
<1> QED
  BY <1>1, AlwaysRetryInv, PTL DEF PassSpec, NothingSentAfterBytes
================================================================================
