---------------------------- MODULE MCKnowledgeBase ----------------------------
(***************************************************************************)
(* The programs of the knowledge base, one of which runs: a collector      *)
(* (KnowledgeBurst), with more commands than a batch holds and a save at   *)
(* every second one, or the refinery (RiskRefinery) on a listed and an     *)
(* unlisted command.                                                       *)
(***************************************************************************)
EXTENDS KnowledgeBurst, RiskRefinery

VARIABLE runs   (* "collector" or "refinery"                                *)

MCRules == [c \in CommandNames |-> IF c = "dd" THEN "CRITICAL" ELSE NoRule]
MCFlags == [c \in {"dd"} |-> {"FILE_OPS", "DESTRUCTIVE", "SYSTEM"}]
MCAnswers ==
  {{}, {"SAFE", "delete"}, {"destroy", "root"}, {"LOW_RISK", "kill"}}
MCFlagAnswers == {{}, {"NETWORK"}}

MCInit == Init /\ RefineryInit /\ runs \in {"collector", "refinery"}

MCNext ==
  \/ runs = "collector" /\ Next /\ UNCHANGED <<runs, refineryVars>>
  \/ runs = "refinery" /\ RefineryNext /\ UNCHANGED <<runs, vars>>

MCSpec ==
  /\ MCInit
  /\ [][MCNext]_<<runs, refineryVars, vars>>
  /\ WF_vars(runs = "collector" /\ MainStep /\ UNCHANGED <<runs, refineryVars>>)
  /\ \A c \in Commands :
       WF_vars(runs = "collector" /\ ThreadStep(c) /\ UNCHANGED <<runs, refineryVars>>)
================================================================================
