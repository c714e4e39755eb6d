------------------------------ MODULE RiskRefinery ------------------------------
(***************************************************************************)
(* The multi-stage refinery of the knowledge base                          *)
(* (tcp-knowledge-base/tcp_optimized_multi_stage.py): five stages turn a   *)
(* command into a risk level, capability flags and a descriptor.  Lists of *)
(* known commands decide the risk and the flags of their members; for any  *)
(* other command the answers of three models do.                           *)
(***************************************************************************)
EXTENDS RiskRules

VARIABLES
  command,      (* the command in process_command                           *)
  stage,        (* the stage it has reached                                 *)
  functions,    (* stage 1: whether its function works on files             *)
  safety,       (* stage 2                                                  *)
  revised,      (* stage 3: revised_risk                                    *)
  flags,        (* stage 4: flags_to_set                                    *)
  analyses,     (* what was kept of each command processed                  *)
  total,        (* stats["total_processed"]                                 *)
  distribution, (* stats["risk_distribution"]                               *)
  overrides     (* stats["rule_overrides"]                                  *)

work == <<command, stage, functions, safety, revised, flags>>
stats == <<total, distribution, overrides>>
refineryVars == <<work, analyses, stats>>

--------------------------------------------------------------------------------
Stages == {"idle", "parsing", "safety", "logic", "encoding", "binary"}

NoSafety == [risk |-> "MEDIUM_RISK", override |-> FALSE, destroys |-> FALSE,
             privileged |-> FALSE]
Safety == [risk : Levels, override : BOOLEAN, destroys : BOOLEAN, privileged : BOOLEAN]

(* risk and flags are what the descriptor encodes, a bit for each; safety   *)
(* is the result of the second stage, which is kept too.                    *)
Analysis == [risk : Levels, flags : SUBSET FlagNames, safety : Safety]
NotAnalysed == [risk |-> "none"]
Analysed == {c \in CommandNames : analyses[c] # NotAnalysed}

Begun(c, next) ==
  /\ command' = c
  /\ stage' = next
  /\ functions' = FALSE
  /\ safety' = NoSafety
  /\ revised' = "MEDIUM_RISK"
  /\ flags' = {}

RefineryInit ==
  /\ command \in CommandNames
  /\ stage = "idle"
  /\ functions = FALSE
  /\ safety = NoSafety
  /\ revised = "MEDIUM_RISK"
  /\ flags = {}
  /\ analyses = [c \in CommandNames |-> NotAnalysed]
  /\ total = 0
  /\ distribution = [r \in Levels |-> 0]
  /\ overrides = 0

--------------------------------------------------------------------------------
(* process_command with a manual page; without one nothing is kept.         *)
Begin(c) ==
  /\ stage = "idle"
  /\ Begun(c, "parsing")
  /\ UNCHANGED <<analyses, stats>>

(* No manual page, or a stage whose model does not answer: the analysis     *)
(* that is kept has no final risk.                                          *)
GiveUp ==
  /\ \/ stage = "parsing"
     \/ stage = "safety" /\ command \notin Ruled
     \/ stage = "logic"
     \/ stage = "encoding" /\ command \notin Ruled
  /\ analyses' = [analyses EXCEPT ![command] = NotAnalysed]
  /\ Begun(command, "idle")
  /\ UNCHANGED stats

(* stage1_pure_parsing                                                      *)
Parse(onFiles) ==
  /\ stage = "parsing"
  /\ total < MaxProcessed /\ overrides < MaxProcessed
  /\ functions' = onFiles
  /\ stage' = "safety"
  /\ UNCHANGED <<command, safety, revised, flags, analyses, stats>>

(* Mutant of Assessed: the model is asked about every command.              *)
AssessedByModel(c, answer) ==
  [risk |-> Level(answer), override |-> FALSE, destroys |-> Destructive(answer),
   privileged |-> Privileged(answer)]

(* stage2_pure_safety: a list decides before any model is asked.            *)
Assessed(c, answer) ==
  IF c \in Ruled
  THEN [risk |-> RuleOf[c], override |-> TRUE,
        destroys |-> RuleOf[c] \in {"CRITICAL", "HIGH_RISK"},
        privileged |-> RuleOf[c] \in {"CRITICAL", "HIGH_RISK", "MEDIUM_RISK"}]
  ELSE [risk |-> Level(answer), override |-> FALSE,
        destroys |-> Destructive(answer), privileged |-> Privileged(answer)]

Assess(answer) ==
  /\ stage = "safety"
  /\ safety' = Assessed(command, answer)
  /\ overrides' = overrides + (IF command \in Ruled THEN 1 ELSE 0)
  /\ stage' = "logic"
  /\ UNCHANGED <<command, functions, revised, flags, analyses, total, distribution>>

(* stage3_logic_review: the level found in the answer replaces that of the  *)
(* second stage, unless a list gave it.                                     *)
Review(answer) ==
  /\ stage = "logic"
  /\ revised' = IF safety.override THEN safety.risk ELSE Level(answer)
  /\ stage' = "encoding"
  /\ UNCHANGED <<command, functions, safety, flags, analyses, stats>>

(* Mutant of Inferred: only what the answer names.                          *)
InferredNothing(named) == named

(* _extract_capability_flags                                                *)
Inferred(named) ==
  named \cup (IF safety.destroys THEN {"DESTRUCTIVE"} ELSE {})
        \cup (IF safety.privileged THEN {"SUDO"} ELSE {})
        \cup (IF functions THEN {"FILE_OPS"} ELSE {})

(* stage4_encoding_review                                                   *)
ChooseFlags(named) ==
  /\ stage = "encoding"
  /\ flags' = IF command \in Ruled THEN RuleFlags[command] ELSE Inferred(named)
  /\ stage' = "binary"
  /\ UNCHANGED <<command, functions, safety, revised, analyses, stats>>

Counted(r) == [distribution EXCEPT ![r] = @ + 1]

(* stage5_algorithmic_encoding and the end of process_command.              *)
Encode ==
  /\ stage = "binary"
  /\ analyses' = [analyses EXCEPT
                    ![command] = [risk |-> revised, flags |-> flags, safety |-> safety]]
  /\ total' = total + 1
  /\ distribution' = Counted(revised)
  /\ Begun(command, "idle")
  /\ UNCHANGED overrides

RefineryNext ==
  \/ \E c \in CommandNames : Begin(c)
  \/ GiveUp
  \/ \E onFiles \in BOOLEAN : Parse(onFiles)
  \/ \E answer \in Answers : Assess(answer) \/ Review(answer)
  \/ \E named \in FlagAnswers : ChooseFlags(named)
  \/ Encode

RefinerySpec == RefineryInit /\ [][RefineryNext]_refineryVars

--------------------------------------------------------------------------------
RefineryTypeOK ==
  /\ command \in CommandNames
  /\ stage \in Stages
  /\ functions \in BOOLEAN
  /\ safety \in Safety
  /\ revised \in Levels
  /\ flags \subseteq FlagNames
  /\ analyses \in [CommandNames -> Analysis \cup {NotAnalysed}]
  /\ total \in Nat
  /\ distribution \in [Levels -> Nat]
  /\ overrides \in Nat

(* "Logic review can adjust risk but not below rule overrides": whatever    *)
(* three models answer, and however often it is processed, a command of a   *)
(* list is encoded with the risk and the flags of its list.                 *)
RulesPrevail ==
  \A c \in Ruled \cap Analysed :
    analyses[c].risk = RuleOf[c] /\ analyses[c].flags = RuleFlags[c]

(* What the safety stage found out about an unlisted command is in its      *)
(* flags, although two more models answered in between and the last of them *)
(* names the flags: a destructive command is encoded DESTRUCTIVE, one that  *)
(* needs privileges SUDO.                                                   *)
FindingsAreEncoded ==
  \A c \in Analysed \ Ruled :
    /\ analyses[c].safety.destroys => "DESTRUCTIVE" \in analyses[c].flags
    /\ analyses[c].safety.privileged => "SUDO" \in analyses[c].flags
================================================================================
