----------------------------- MODULE MCToolGating -----------------------------
(***************************************************************************)
(* What keeps and chooses tools, one of which runs: the proxy (ToolGating) *)
(* with seven tools on three servers, exa in the core pack, git in a pack  *)
(* of its own, github in none; the routers of the harness (ToolRouting);   *)
(* or the registry of descriptors (CapabilityRegistry).                    *)
(***************************************************************************)
EXTENDS ToolGating, ToolRouting, CapabilityRegistry

VARIABLE pipeline   (* "proxy", "router" or "registry"                      *)

(* Those that do not run stay in one state.                                 *)
MCInit ==
  /\ pipeline \in {"proxy", "router", "registry"}
  /\ RouteInit /\ RegistryInit
  /\ \/ pipeline = "proxy" /\ Init
     \/ /\ pipeline # "proxy"
        /\ config = CHOOSE c \in Configs : TRUE
        /\ modeFile = "" /\ turn = NoTurn

MCNext ==
  \/ pipeline = "proxy" /\ Next /\ UNCHANGED <<pipeline, routeVars, registryVars>>
  \/ pipeline = "router" /\ RouteNext /\ UNCHANGED <<pipeline, vars, registryVars>>
  \/ pipeline = "registry" /\ RegistryNext /\ UNCHANGED <<pipeline, vars, routeVars>>

MCSpec == MCInit /\ [][MCNext]_<<pipeline, vars, routeVars, registryVars>>

MCServerOf ==
  [t \in Tools |-> CASE t = "exa_search" -> "exa"
                     [] t \in {"git_log", "git_blame"} -> "git"
                     [] t \in {"github_pr", "github_note"} -> "github"
                     [] OTHER -> NoServer]

(* github_note has no static flags and a description that says nothing.     *)
MCFlags ==
  [t \in Tools |-> CASE t \in {"Read", "git_log"} -> {"files"}
                     [] t = "Bash" -> {"files", "network"}
                     [] t = "github_note" -> {}
                     [] OTHER -> {"network"}]

MCCapServers ==
  [k \in Capabilities |-> CASE k = "search" -> {"exa"}
                            [] k = "vcs" -> {"git"}
                            [] k = "pr" -> {"github"}]

MCPackOf ==
  [s \in Servers |-> CASE s = "exa" -> "core" [] s = "git" -> "own" [] OTHER -> NoPack]

Rules(git) ==
  [p \in Packs |-> IF p = "own" THEN git
                   ELSE [default |-> "active", matches |-> FALSE, allowWorkspace |-> FALSE]]

PlainRule(default) == [default |-> default, matches |-> FALSE, allowWorkspace |-> TRUE]

(* Everything the policy may say, in an open environment, and every        *)
(* environment with the pack of git in each of its states.                  *)
MCConfigs ==
  [packOf : {MCPackOf}, rules : {Rules(r) : r \in PackRules},
   override : BOOLEAN, allowed : {{"exa"}, {"exa", "github"}},
   workspace : {{}, {"git", "github"}},
   enabled : {Gates}, systemDir : {FALSE}, demote : {TRUE}]
  \cup
  [packOf : {MCPackOf}, rules : {Rules(PlainRule(d)) : d \in States},
   override : {FALSE}, allowed : {{"exa"}, {"exa", "github"}}, workspace : {{}},
   enabled : {Gates, {"files"}, {"network"}}, systemDir : BOOLEAN, demote : {TRUE}]

MCRequests ==
  [offered : {Tools, {"exa_search", "git_blame"}, {"Bash", "git_log", "github_note"}},
   mentioned : {{}, {"git"}}, continuation : {FALSE}, flags : {{"network"}},
   capabilities : {{}, {"search", "vcs"}}, named : {{}, {"Read", "github_pr"}},
   recent : {{}, {"exa"}}]
  \cup
  [offered : {Tools}, mentioned : {{}, {"github"}}, continuation : {TRUE},
   flags : {{"auth"}}, capabilities : {{}}, named : {{}, {"exa_search"}}, recent : {{}}]

(* One plain configuration with the network on or off, a few requests.      *)
SmallConfigs ==
  [packOf : {MCPackOf}, rules : {Rules(PlainRule("suppressed"))},
   override : {FALSE}, allowed : {{"exa"}}, workspace : {{}},
   enabled : {Gates, {"files"}}, systemDir : {FALSE}, demote : {FALSE}]

SmallRequests ==
  [offered : {Tools, {"Read", "github_pr"}, {"github_pr"}}, mentioned : {{}},
   continuation : {FALSE}, flags : {{}, {"network"}}, capabilities : {{}, {"pr"}},
   named : {{}}, recent : {{}}]

(* Tools that differ in one thing each from the first, two that cost the    *)
(* same, and one that asks for approval by its flag and by its risk.        *)
Plain == [name |-> "jq", flags |-> {"json", "files"}, level |-> "read_only",
          risky |-> FALSE, offers |-> {"text"}, time |-> 2, memory |-> 1]

MCRecords ==
  {Plain,
   [Plain EXCEPT !.name = "rg", !.memory = 2],
   [Plain EXCEPT !.flags = {"json", "auth"}, !.risky = TRUE],
   [Plain EXCEPT !.flags = {"network", "json"}, !.time = 1],
   [Plain EXCEPT !.flags = {"stdin", "files"}, !.risky = TRUE, !.time = 3],
   [Plain EXCEPT !.level = "execute_full", !.offers = {}]}

MCTasks ==
  [flags : {{}, {"json", "files"}}, needs : {{}, {"text"}}, auto : BOOLEAN,
   criteria : {"speed", "memory"}]

MCEnvironments ==
  [enabled : {{"network", "files", "stdin"}, {"files"}, {"network", "files"}},
   permitted : {{"read_only"}, {"read_only", "execute_full"}},
   installed : {{}, {"jq"}}]
================================================================================
