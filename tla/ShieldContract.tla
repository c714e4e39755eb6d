---------------------------- MODULE ShieldContract ----------------------------
(***************************************************************************)
(* What the recency shield of the proxy promises, without the registry,    *)
(* the decision log or the process that hold it (tcp/proxy/cc_proxy.py,    *)
(* the comment block "Stage 4.5 recency shield").                          *)
(*                                                                         *)
(* Each turn is decided once, at a time `now`, for one workspace.  The     *)
(* decision shields some of the MCP servers that were observed handling a  *)
(* tool call in that workspace at most TTL before `now`, and no others.    *)
(* Calls are observed only for a turn already decided, and are stamped     *)
(* with the time at which that turn arrived.                               *)
(***************************************************************************)
EXTENDS Integers

CONSTANTS
  Requests,     (* turns: one POST /v1/messages each                        *)
  Workspaces,   (* named workspaces (session.cwd)                           *)
  NoWorkspace,  (* a request whose session has no workspace                 *)
  Servers,      (* MCP servers                                              *)
  TTL,          (* RECENCY_TTL_DEFAULT_SECONDS, in clock ticks              *)
  Times         (* the times a turn can arrive at                           *)

VARIABLES
  observed,     (* calls observed so far: [ws, srv, ts] records             *)
  decided       (* Requests -> the decision taken, or Undecided             *)

vars == <<observed, decided>>

Call == [ws : Workspaces, srv : Servers, ts : Times]

Undecided == [ws |-> NoWorkspace, ts |-> -1, shield |-> {}]

RecentlyCalled(w, now) ==
  {s \in Servers :
     \E c \in observed : c.ws = w /\ c.srv = s /\ now - c.ts <= TTL}

Init ==
  /\ observed = {}
  /\ decided = [r \in Requests |-> Undecided]

Decide(r) ==
  /\ decided[r] = Undecided
  /\ \E w \in Workspaces \cup {NoWorkspace}, now \in Times :
       \E shield \in SUBSET RecentlyCalled(w, now) :
         decided' = [decided EXCEPT
                       ![r] = [ws |-> w, ts |-> now, shield |-> shield]]
  /\ UNCHANGED observed

Observe(r) ==
  /\ decided[r] # Undecided
  /\ decided[r].ws # NoWorkspace
  /\ \E called \in SUBSET Servers :
       observed' = observed \cup
         {[ws |-> decided[r].ws, srv |-> s, ts |-> decided[r].ts] : s \in called}
  /\ UNCHANGED decided

Next == \E r \in Requests : Decide(r) \/ Observe(r)

Spec == Init /\ [][Next]_vars
================================================================================
