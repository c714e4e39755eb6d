------------------------------ MODULE ResponseTap ------------------------------
(***************************************************************************)
(* One POST /v1/messages through the proxy, from the upstream send to the  *)
(* decision record: proxy_post_messages of tcp/proxy/cc_proxy.py.          *)
(*                                                                         *)
(* A streamed response is handed to the client chunk by chunk; each chunk  *)
(* is parsed for tool calls only after the client took it.  Chunks end     *)
(* anywhere.  A data line of the stream is three atoms here, two halves of *)
(* its text and its newline, so that a chunk may end inside a line, after  *)
(* its text but before its newline, or after it: event i is made of the    *)
(* atoms 3i-2, 3i-1 and 3i, and it can be parsed once both halves are in   *)
(* the buffer.                                                             *)
(***************************************************************************)
EXTENDS ProxyLimits, Sequences, FiniteSets

VARIABLES
  request,   (* what is asked, how it is answered and what may go wrong     *)
  wire,      (* the events upstream sends                                   *)
  phase,     (* where the handler or its body generator is                  *)
  got,       (* atoms received from upstream                                *)
  tapped,    (* atoms the tap has looked at (text_buf holds these)          *)
  buf,       (* the line buffer holds the atoms buf+1 .. tapped             *)
  scans,     (* chunks parsed                                               *)
  calls,     (* tool_sequence: the tool found at `event` in scan `scan`     *)
  done,      (* _tap["done"]                                                *)
  checks,    (* denial checks run on the metadata of this turn              *)
  rows,      (* the rows this turn has in decisions.jsonl                   *)
  upstream   (* the upstream response: "none", "open", "closed"             *)

vars == <<request, wire, phase, got, tapped, buf, scans, calls, done, checks,
          rows, upstream>>

--------------------------------------------------------------------------------
EventKinds == {"tool", "text", "stop"}

(* message_stop, if there is one, is the last event.                        *)
Wires ==
  UNION {{w \in [1 .. n -> EventKinds] : \A i \in 1 .. (n - 1) : w[i] # "stop"} :
           n \in 0 .. MaxEvents}

Atoms == 3 * Len(wire)
ToolEvents == {i \in 1 .. Len(wire) : wire[i] = "tool"}

CallsRange == [scan : Nat, event : Nat]
EventsOf(cs) == {c.event : c \in cs}

(* _all_tools_from_sse_buf: the events whose whole text lies in the buffer. *)
(* A last line without its newline is parsed like any other.                *)
Complete(lo, hi) == {i \in 1 .. Len(wire) : lo < 3 * i - 2 /\ 3 * i - 1 <= hi}

(* Mutant of LastLineStart: the whole buffer dropped.                       *)
LastLineStartDropped(hi) == hi

(* The buffer keeps what follows the last newline.                          *)
LastLineStart(hi) == 3 * (hi \div 3)

(* A request has decision metadata or not, it is streamed or not, and the   *)
(* response is compressed or not.  Appending to decisions.jsonl may raise,  *)
(* upstream may break off, the client may disconnect.                       *)
Turns == [meta : BOOLEAN, stream : BOOLEAN, compressed : BOOLEAN,
          faults : SUBSET {"log", "upstream", "client"}]

MayFail == "log" \in request.faults
MayBreak == "upstream" \in request.faults
ClientMayLeave == "client" \in request.faults

CanTap == request.meta /\ ~request.compressed

Row(kind, cs) == [kind |-> kind, calls |-> cs, text |-> tapped']

--------------------------------------------------------------------------------
Init ==
  /\ request \in Turns
  /\ wire \in Wires
  /\ phase = "sending"
  /\ got = 0
  /\ tapped = 0
  /\ buf = 0
  /\ scans = 0
  /\ calls = {}
  /\ done = FALSE
  /\ checks = 0
  /\ rows = <<>>
  /\ upstream = "none"

NoTap == UNCHANGED <<tapped, buf, scans, calls, done, checks>>

(* _write_decision_record either appends the row or raises before it.       *)
Written(row) == rows' = Append(rows, row)
NotWritten == MayFail /\ UNCHANGED rows

--------------------------------------------------------------------------------
(* _send_upstream_with_retry gives up: a row without tools, then raise.     *)
SendFails ==
  /\ MayBreak
  /\ phase = "sending"
  /\ phase' = "closed"
  /\ NoTap
  /\ IF request.meta THEN Written(Row("skipped", {})) \/ NotWritten ELSE UNCHANGED rows
  /\ UNCHANGED <<request, wire, got, upstream>>

SendSucceeds ==
  /\ phase = "sending"
  /\ phase' = IF request.stream THEN "created" ELSE "buffering"
  /\ upstream' = "open"
  /\ NoTap
  /\ UNCHANGED <<request, wire, got, rows>>

(* The whole body of a response that is not streamed, read, parsed and      *)
(* recorded.  It is read raw, so a compressed body does not parse.          *)
ReadBody ==
  /\ phase = "buffering"
  /\ phase' = "closed"
  /\ got' = Atoms
  /\ upstream' = "closed"
  /\ IF request.meta
     THEN /\ tapped' = Atoms
          /\ checks' = checks + 1
          /\ calls' = IF request.compressed
                      THEN {}
                      ELSE {[scan |-> 1, event |-> i] : i \in ToolEvents}
          /\ Written(Row("complete", calls')) \/ NotWritten
     ELSE UNCHANGED <<tapped, checks, calls, rows>>
  /\ UNCHANGED <<request, wire, buf, scans, done>>

(* Reading that body fails, or the handler is cancelled: no row is written. *)
ReadBodyFails ==
  /\ MayBreak \/ ClientMayLeave
  /\ phase = "buffering"
  /\ phase' = "closed"
  /\ upstream' = "closed"
  /\ NoTap
  /\ UNCHANGED <<request, wire, got, rows>>

--------------------------------------------------------------------------------
(* The server starts to iterate the body generator ...                      *)
StartStream ==
  /\ phase = "created"
  /\ phase' = "reading"
  /\ NoTap
  /\ UNCHANGED <<request, wire, got, rows, upstream>>

(* ... or the client is gone before: a generator that never started runs no *)
(* finally block.                                                           *)
AbandonStream ==
  /\ ClientMayLeave
  /\ phase = "created"
  /\ phase' = "closed"
  /\ NoTap
  /\ UNCHANGED <<request, wire, got, rows, upstream>>

(* The next chunk from upstream, up to atom n, is yielded.                  *)
Chunk(n) ==
  /\ phase = "reading"
  /\ n > got
  /\ got' = n
  /\ phase' = "yielded"
  /\ NoTap
  /\ UNCHANGED <<request, wire, rows, upstream>>

(* Mutant of Finally: a turn already recorded leaves upstream open.         *)
FinallyLeavesOpen ==
  /\ phase' = "closed"
  /\ IF request.meta /\ ~done'
     THEN /\ Written(Row(IF CanTap THEN "aborted" ELSE "skipped", calls'))
          /\ upstream' = "closed"
     ELSE UNCHANGED <<rows, upstream>>

(* The finally block of body_iter.  If the record raises there, the         *)
(* upstream response is not closed.                                         *)
Finally ==
  /\ phase' = "closed"
  /\ \/ /\ CanTap /\ ~done'
        /\ Written(Row("aborted", calls'))
        /\ upstream' = "closed"
     \/ /\ CanTap /\ ~done'
        /\ NotWritten
        /\ UNCHANGED upstream
     \/ /\ request.meta /\ ~CanTap
        /\ Written(Row("skipped", {}))
        /\ upstream' = "closed"
     \/ /\ request.meta /\ ~CanTap
        /\ NotWritten
        /\ UNCHANGED upstream
     \/ /\ ~request.meta \/ (CanTap /\ done')
        /\ upstream' = "closed"
        /\ UNCHANGED rows

(* Mutants of EndStream: the text yielded last is counted as seen, and the  *)
(* denial check is run again after message_stop.                            *)
EndStreamCountsText ==
  /\ (phase = "reading" /\ got = Atoms) \/ (phase = "yielded" /\ ClientMayLeave)
  /\ checks' = IF CanTap /\ ~done THEN checks + 1 ELSE checks
  /\ tapped' = got
  /\ UNCHANGED <<request, wire, got, buf, scans, calls, done>>
  /\ Finally

EndStreamChecksAgain ==
  /\ phase = "reading" /\ got = Atoms
  /\ checks' = IF CanTap THEN checks + 1 ELSE checks
  /\ UNCHANGED <<request, wire, got, tapped, buf, scans, calls, done>>
  /\ Finally

(* The stream ends, breaks off, or the client is gone while the generator   *)
(* waits for upstream or for the client: what was yielded last is not       *)
(* parsed.                                                                  *)
EndStream ==
  /\ \/ phase = "reading" /\ got = Atoms
     \/ phase = "reading" /\ (MayBreak \/ ClientMayLeave)
     \/ phase = "yielded" /\ ClientMayLeave
  /\ checks' = IF CanTap /\ ~done THEN checks + 1 ELSE checks
  /\ UNCHANGED <<request, wire, got, tapped, buf, scans, calls, done>>
  /\ Finally

(* The client took the chunk and it needs no parsing.                       *)
PassChunk ==
  /\ phase = "yielded"
  /\ ~CanTap \/ done
  /\ phase' = "reading"
  /\ NoTap
  /\ UNCHANGED <<request, wire, got, rows, upstream>>

(* Parse the buffer and the new chunk together.                             *)
Parse ==
  /\ scans' = scans + 1
  /\ tapped' = got
  /\ calls' = calls \cup {[scan |-> scans + 1, event |-> i] :
                            i \in ToolEvents \cap Complete(buf, got)}

Ended == \E i \in Complete(buf, got) : wire[i] = "stop"

TapChunk ==
  /\ phase = "yielded"
  /\ CanTap /\ ~done
  /\ ~Ended
  /\ Parse
  /\ buf' = LastLineStart(got)
  /\ phase' = "reading"
  /\ UNCHANGED <<request, wire, got, done, checks, rows, upstream>>

(* Mutant of TapStop: the turn is not marked as recorded.                   *)
TapStopUnmarked ==
  /\ phase = "yielded"
  /\ CanTap /\ ~done
  /\ Ended
  /\ Parse
  /\ checks' = checks + 1
  /\ Written(Row("complete", calls'))
  /\ buf' = got
  /\ phase' = "reading"
  /\ UNCHANGED <<request, wire, got, done, upstream>>

(* message_stop: the denial check sees the whole text, then the record.     *)
TapStop ==
  /\ phase = "yielded"
  /\ CanTap /\ ~done
  /\ Ended
  /\ Parse
  /\ checks' = checks + 1
  /\ Written(Row("complete", calls'))
  /\ done' = TRUE
  /\ buf' = got
  /\ phase' = "reading"
  /\ UNCHANGED <<request, wire, got, upstream>>

(* The record raises at message_stop: done is not set, so the finally block *)
(* checks and writes again, as if the stream had been aborted.              *)
TapStopFails ==
  /\ MayFail
  /\ phase = "yielded"
  /\ CanTap /\ ~done
  /\ Ended
  /\ Parse
  /\ checks' = checks + 2
  /\ UNCHANGED <<request, wire, got, buf, done>>
  /\ Finally

--------------------------------------------------------------------------------
Upstream == SendSucceeds \/ ReadBody \/ (\E n \in 1 .. Atoms : Chunk(n))

Generator == StartStream \/ PassChunk \/ TapChunk \/ TapStop \/ TapStopFails \/ EndStream

Finished == phase = "closed" /\ UNCHANGED vars

Next == SendFails \/ ReadBodyFails \/ AbandonStream \/ Upstream \/ Generator \/ Finished

Spec == Init /\ [][Next]_vars

(* httpx ends every wait for upstream (UPSTREAM_TIMEOUT) and the server     *)
(* drives the generator, so neither stops for ever.                         *)
FairSpec == Spec /\ WF_vars(Upstream) /\ WF_vars(Generator)

--------------------------------------------------------------------------------
TypeOK ==
  /\ request \in Turns
  /\ wire \in Seq(EventKinds)
  /\ phase \in {"sending", "created", "buffering", "reading", "yielded", "closed"}
  /\ got \in Nat /\ tapped \in Nat /\ buf \in Nat /\ scans \in Nat
  /\ calls \in SUBSET CallsRange
  /\ done \in BOOLEAN
  /\ checks \in Nat
  /\ rows \in Seq([kind : {"skipped", "aborted", "complete"},
                   calls : SUBSET CallsRange, text : Nat])
  /\ upstream \in {"none", "open", "closed"}

(* A turn never has two rows, however its record, its stream and its client *)
(* fail: every row of the log is one turn.                                  *)
OneRowPerTurn == Len(rows) <= 1

(* A row that is neither aborted nor skipped names every tool the response  *)
(* called, and the denial check before it saw the whole text.  (A buffered  *)
(* response is compressed only if upstream ignores Accept-Encoding:         *)
(* identity.)                                                               *)
CompleteRowIsComplete ==
  \A k \in 1 .. Len(rows) :
    rows[k].kind = "complete" /\ (request.stream \/ ~request.compressed) =>
      /\ EventsOf(rows[k].calls) = ToolEvents
      /\ Complete(0, rows[k].text) = 1 .. Len(wire)

(* No row names a tool the response did not call; an aborted row names      *)
(* exactly the calls in the text its denial check saw.                      *)
AbortedRowIsPrefix ==
  \A k \in 1 .. Len(rows) :
    rows[k].kind = "aborted" =>
      EventsOf(rows[k].calls) = ToolEvents \cap Complete(0, rows[k].text)

(* A turn recorded as complete was judged for a capability denial exactly   *)
(* once, however long its stream goes on after message_stop.                *)
CheckedOnce ==
  \A k \in 1 .. Len(rows) : rows[k].kind = "complete" => checks = 1

(* Unless something goes wrong, a turn with metadata ends with its row      *)
(* written; unless the log fails too or the client is gone before the first *)
(* byte, a turn ends with its upstream response closed.                     *)
ResponseEnds ==
  /\ <>(phase = "closed")
  /\ request.faults = {} => <>[](upstream = "closed" /\ (request.meta => Len(rows) = 1))
  /\ request.faults \subseteq {"upstream"} => <>[](upstream # "open")
================================================================================
