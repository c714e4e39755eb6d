SPECIFICATION MCSpec
CONSTANTS
  Tools = {"Read", "Bash", "exa_search", "git_log", "git_blame", "github_pr", "github_note"}
  Servers = {"exa", "git", "github"}
  Packs = {"core", "own"}
  Capabilities = {"search", "vcs", "pr"}
  NoServer = "none"
  NoPack = "none"
  CorePack = "core"
  ServerOf <- MCServerOf
  Flags <- MCFlags
  Static = {"Read", "Bash", "exa_search", "git_log", "git_blame", "github_pr"}
  SafetyFloor = {"Read", "Bash", "git_log"}
  CapServers <- MCCapServers
  MaxShortlist = 1
  Configs <- MCConfigs
  Requests <- MCRequests
  ToolNames = {"jq", "rg"}
  Levels = {"read_only", "execute_full"}
  Features = {"text"}
  Records <- MCRecords
  Tasks <- MCTasks
  Environments <- MCEnvironments
  MaxInventory = 3
  Names = {"jq", "rg"}
  Versions = {1, 2}
  MaxEntries = 3
  MaxClock = 4
INVARIANT MentionsOnlyAdd
INVARIANT LiveHidesSuppressed
INVARIANT FloorKept
INVARIANT DemotedStaysReachable
INVARIANT DemotionIsReversible
INVARIANT RouterAgreesWithGate
INVARIANT IndexesAgree
INVARIANT Bounded
PROPERTY KeepsRecencyOrder
