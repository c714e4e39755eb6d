SPECIFICATION MCSpec
CONSTANTS
  Tools = {"Read", "Bash", "exa_search", "git_log", "git_blame", "github_pr", "github_note"}
  Servers = {"exa", "git", "github"}
  Packs = {"core", "own"}
  Capabilities = {"search", "vcs", "pr"}
  NoServer = "none"
  NoPack = "none"
  CorePack = "core"
  ServerOf <- MCServerOf
  Flags <- MCFlags
  Static = {"Read", "Bash", "exa_search", "git_log", "git_blame", "github_pr"}
  SafetyFloor = {"Read", "Bash", "git_log"}
  CapServers <- MCCapServers
  MaxShortlist = 1
  Configs <- SmallConfigs
  Requests <- SmallRequests
  ToolNames = {"jq", "rg"}
  Levels = {"read_only", "execute_full"}
  Features = {"text"}
  Records = {}
  Tasks = {}
  Environments = {}
  MaxInventory = 0
  Names = {}
  Versions = {}
  MaxEntries = 1
  MaxClock = 1
INVARIANT FloorWithinEnvironment
