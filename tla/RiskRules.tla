------------------------------- MODULE RiskRules -------------------------------
(***************************************************************************)
(* What the refinery of the knowledge base goes by: the lists of known     *)
(* commands and the way it reads an answer                                 *)
(* (tcp-knowledge-base/tcp_optimized_multi_stage.py).                      *)
(*                                                                         *)
(* An answer is the set of the words in it that the stages look for, each  *)
(* word standing for the keywords that are treated alike.                  *)
(***************************************************************************)
EXTENDS Integers, FiniteSets, FiniteSetsExt

CONSTANTS
  CommandNames,
  RuleOf,       (* the list a command is in, or NoRule                      *)
  NoRule,
  RuleFlags,    (* _get_rule_based_flags of the commands in a list          *)
  Answers,      (* bound: the answers of stages 2 and 3 considered          *)
  FlagAnswers,  (* bound: what the answers of stage 4 may name              *)
  MaxProcessed  (* bound: commands processed to the end, or ruled on        *)

Risks == <<"SAFE", "LOW_RISK", "MEDIUM_RISK", "HIGH_RISK", "CRITICAL">>
Levels == {Risks[i] : i \in 1 .. 5}
FlagNames == {"FILE_OPS", "NETWORK", "SUDO", "DESTRUCTIVE", "SYSTEM", "PROCESS"}

Words == Levels \cup {"destroy", "delete", "kill", "truncate", "root"}

Ruled == {c \in CommandNames : RuleOf[c] # NoRule}

ASSUME RefineryAssumption ==
  /\ NoRule \notin Levels
  /\ RuleOf \in [CommandNames -> Levels \cup {NoRule}]
  /\ RuleFlags \in [Ruled -> SUBSET FlagNames]
  /\ Answers \subseteq SUBSET Words
  /\ FlagAnswers \subseteq SUBSET FlagNames
  /\ MaxProcessed \in Nat

--------------------------------------------------------------------------------
(* _extract_risk_level_enhanced: the gravest level named, or one inferred   *)
(* from the keywords; an answer that says nothing counts as MEDIUM_RISK.    *)
Named(answer) == {i \in 1 .. 5 : Risks[i] \in answer}

Level(answer) ==
  IF Named(answer) # {} THEN Risks[Max(Named(answer))]
  ELSE IF "destroy" \in answer THEN "CRITICAL"
  ELSE IF answer \cap {"delete", "kill"} # {} THEN "HIGH_RISK"
  ELSE "MEDIUM_RISK"

Destructive(answer) == answer \cap {"destroy", "delete", "truncate"} # {}
Privileged(answer) == "root" \in answer
================================================================================
