------------------------------ MODULE MCProxyTurns ------------------------------
(***************************************************************************)
(* ProxyTurns with two tools on two servers that are both active: the      *)
(* prompt names one, so that the other is demoted unless it is shielded.   *)
(***************************************************************************)
EXTENDS ProxyTurns, TLC

MCServerOf ==
  [t \in Tools |-> IF t = "exa_search" THEN "exa" ELSE "git"]

Symmetry == Permutations(Requests)

MCFlags == [t \in Tools |-> {"files"}]
MCCapServers == [k \in Capabilities |-> {"git"}]

MCConfigs ==
  [packOf : {[s \in Servers |-> NoPack]},
   rules : {[p \in Packs |-> [default |-> "active", matches |-> FALSE, allowWorkspace |-> FALSE]]},
   override : {FALSE}, allowed : {Servers}, workspace : {{}},
   enabled : {{"network", "files", "stdin"}}, systemDir : {FALSE}, demote : {TRUE}]

MCPrompts ==
  [offered : {Tools}, mentioned : {{}}, continuation : {FALSE}, flags : {{}},
   capabilities : {{}}, named : {{"exa_search"}}, recent : {{}}]
================================================================================
