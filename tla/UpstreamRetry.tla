----------------------------- MODULE UpstreamRetry -----------------------------
(***************************************************************************)
(* One request forwarded to upstream by tcp/proxy/cc_proxy.py, with the    *)
(* two places that send again: the loop of _send_upstream_with_retry and   *)
(* the body generator of proxy_pass_through, which sends once more when a  *)
(* response breaks off before its first byte.  POST /v1/messages uses the  *)
(* same loop and never the second place; ResponseTap says what it does     *)
(* with the response.                                                      *)
(*                                                                         *)
(* The sends are numbered 1, 2, ...; a response has the number of its send.*)
(***************************************************************************)
EXTENDS ProxyLimits

VARIABLES
  forwarded,  (* its method is in SAFE_RETRY_METHODS; it is passed through  *)
  stage,      (* where the handler or its body generator is                 *)
  attempt,    (* the attempts that failed in the current send loop          *)
  sends,      (* requests sent so far                                       *)
  executions, (* how many of them upstream carried out                      *)
  retryCount, (* _retry_count: the failed attempts before the first response*)
  first,      (* the response whose status and headers the client gets      *)
  bytesFrom,  (* the responses whose bytes the client got                   *)
  open        (* the responses not closed                                   *)

passVars == <<forwarded, stage, attempt, sends, executions, retryCount, first,
              bytesFrom, open>>

--------------------------------------------------------------------------------
(* ConnectError, ConnectTimeout and PoolTimeout; ReadError and ReadTimeout; *)
(* all others.                                                              *)
ErrorKinds == {"connect", "read", "other"}

(* Upstream never saw a request whose connection was not made.              *)
MayHaveExecuted(kind) == IF kind = "connect" THEN {0} ELSE {0, 1}

(* Mutants of ShouldRetry: the method, and the bytes, are not looked at.    *)
ShouldRetryAnyMethod(saw, kind) == ~saw /\ kind \in {"connect", "read"}
ShouldRetryAfterBytes(saw, kind) == kind = "connect" \/ (forwarded.safe /\ kind = "read")

ShouldRetry(saw, kind) ==
  /\ ~saw
  /\ kind = "connect" \/ (forwarded.safe /\ kind = "read")

--------------------------------------------------------------------------------
(* /v1/messages takes POST only.                                            *)
Requests == {r \in [safe : BOOLEAN, passThrough : BOOLEAN] : r.safe => r.passThrough}

PassInit ==
  /\ forwarded \in Requests
  /\ stage = "sending"
  /\ attempt = 0
  /\ sends = 0
  /\ executions = 0
  /\ retryCount = 0
  /\ first = 0
  /\ bytesFrom = {}
  /\ open = {}

Sending == stage \in {"sending", "resending"}

(* client.send returns a response: the handler returns a stream of it, the  *)
(* body generator goes on with it.                                          *)
Answered ==
  /\ Sending
  /\ sends' = sends + 1
  /\ executions' = executions + 1
  /\ open' = open \cup {sends'}
  /\ IF stage = "sending"
     THEN stage' = "headers" /\ retryCount' = attempt /\ first' = sends'
     ELSE stage' = "rebody" /\ UNCHANGED <<retryCount, first>>
  /\ UNCHANGED <<forwarded, attempt, bytesFrom>>

SendAgain(kind) == attempt + 1 < MaxAttempts /\ ShouldRetry(FALSE, kind)

(* client.send raises: the loop tries again, or the error leaves it and the *)
(* finally block of the generator, if it runs, closes the first response.   *)
SendError(kind) ==
  /\ Sending
  /\ sends' = sends + 1
  /\ \E n \in MayHaveExecuted(kind) : executions' = executions + n
  /\ IF SendAgain(kind)
     THEN attempt' = attempt + 1 /\ UNCHANGED <<stage, open>>
     ELSE stage' = "over" /\ open' = {} /\ UNCHANGED attempt
  /\ UNCHANGED <<forwarded, retryCount, first, bytesFrom>>

(* The client is gone while the request is under way.                       *)
SendCancelled ==
  /\ Sending
  /\ sends' = sends + 1
  /\ \E n \in {0, 1} : executions' = executions + n
  /\ stage' = "over"
  /\ open' = {}
  /\ UNCHANGED <<forwarded, attempt, retryCount, first, bytesFrom>>

--------------------------------------------------------------------------------
StartBody ==
  /\ stage = "headers"
  /\ stage' = "body"
  /\ UNCHANGED <<forwarded, attempt, sends, executions, retryCount, first, bytesFrom, open>>

(* The client is gone before the generator starts, so no block closes the   *)
(* response.                                                                *)
AbandonBody ==
  /\ stage = "headers"
  /\ stage' = "over"
  /\ UNCHANGED <<forwarded, attempt, sends, executions, retryCount, first, bytesFrom, open>>

Bytes ==
  /\ stage \in {"body", "rebody"}
  /\ bytesFrom' = bytesFrom \cup {sends}
  /\ UNCHANGED <<forwarded, stage, attempt, sends, executions, retryCount, first, open>>

(* The body ends, or the client leaves: both finally blocks run.            *)
StreamEnds ==
  /\ stage \in {"body", "rebody"}
  /\ stage' = "over"
  /\ open' = {}
  /\ UNCHANGED <<forwarded, attempt, sends, executions, retryCount, first, bytesFrom>>

(* Mutant of BodyRetry: a second retry whatever the first send did.         *)
BodyRetryAlways(kind) == forwarded.passThrough /\ ShouldRetry(bytesFrom # {}, kind)

BodyRetry(kind) ==
  forwarded.passThrough /\ retryCount = 0 /\ ShouldRetry(bytesFrom # {}, kind)

(* The first response breaks off.  It stays open while the request is sent  *)
(* again.                                                                   *)
BodyFails(kind) ==
  /\ stage = "body"
  /\ IF BodyRetry(kind)
     THEN stage' = "resending" /\ attempt' = 0 /\ UNCHANGED open
     ELSE stage' = "over" /\ open' = {} /\ UNCHANGED attempt
  /\ UNCHANGED <<forwarded, sends, executions, retryCount, first, bytesFrom>>

(* Mutant of RebodyFails: the first response stays open.                    *)
RebodyFailsClosingOne ==
  /\ stage = "rebody"
  /\ stage' = "over"
  /\ open' = open \ {sends}
  /\ UNCHANGED <<forwarded, attempt, sends, executions, retryCount, first, bytesFrom>>

(* So does the second, and the error goes to the client.                    *)
RebodyFails ==
  /\ stage = "rebody"
  /\ stage' = "over"
  /\ open' = {}
  /\ UNCHANGED <<forwarded, attempt, sends, executions, retryCount, first, bytesFrom>>

PassOver == stage = "over" /\ UNCHANGED passVars

(* A response that is being read fails with anything but a connect error.   *)
PassNext ==
  \/ Answered
  \/ \E kind \in ErrorKinds : SendError(kind)
  \/ SendCancelled
  \/ StartBody
  \/ AbandonBody
  \/ Bytes
  \/ StreamEnds
  \/ \E kind \in ErrorKinds \ {"connect"} : BodyFails(kind)
  \/ RebodyFails
  \/ PassOver

PassSpec == PassInit /\ [][PassNext]_passVars

--------------------------------------------------------------------------------
PassTypeOK ==
  /\ forwarded \in Requests
  /\ stage \in {"sending", "headers", "body", "resending", "rebody", "over"}
  /\ attempt \in 0 .. (MaxAttempts - 1)
  /\ sends \in Nat
  /\ executions \in 0 .. sends
  /\ retryCount \in 0 .. (MaxAttempts - 1)
  /\ first \in 0 .. sends
  /\ bytesFrom \subseteq 1 .. sends
  /\ open \subseteq 1 .. sends

(* A request whose method is not safe is never carried out twice, whatever  *)
(* errors the connection, the answer and the body meet: a POST is only sent *)
(* again when it was not received.                                          *)
UnsafeOnce == ~forwarded.safe => executions <= 1

(* The client never gets a body pieced together from two responses.         *)
OneBody == \A i, j \in bytesFrom : i = j

(* The two places that send again together make one attempt more than the   *)
(* loop's limit, never more: the generator sends again only if the first    *)
(* attempt was answered.                                                    *)
AttemptsBounded == sends <= MaxAttempts + 1

(* Every response a started generator had is closed when it is over, the    *)
(* one it gave up included.                                                 *)
AllClosed ==
  stage = "over" /\ open # {} => /\ bytesFrom = {}
                                 /\ open = {first}
                                 /\ sends = retryCount + 1

(* Once the client has bytes, the request is never sent again.              *)
NothingSentAfterBytes == [][bytesFrom # {} => sends' = sends]_passVars
================================================================================
