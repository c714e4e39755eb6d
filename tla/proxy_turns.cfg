SPECIFICATION ProxySpec
CONSTANTS
  Requests = {r1, r2, r3}
  Workspaces = {"w"}
  NoWorkspace = "none"
  Servers = {"exa", "git"}
  TTL = 1
  MaxClock = 2
  MaxOpen = 2
  WarmEnabled = TRUE
  MayCrash = TRUE
  MayFail = FALSE
  ClockMayStepBack = FALSE
  Tools = {"exa_search", "git_log"}
  Packs = {"core"}
  Capabilities = {"vcs"}
  NoServer = "noServer"
  NoPack = "noPack"
  CorePack = "core"
  ServerOf <- MCServerOf
  Flags <- MCFlags
  Static = {"exa_search", "git_log"}
  SafetyFloor = {}
  CapServers <- MCCapServers
  MaxShortlist = 1
  Configs <- MCConfigs
  Prompts <- MCPrompts
  ModesSet = {"live", "shadow"}
SYMMETRY Symmetry
INVARIANT CalledComesInFull
INVARIANT RestartKeepsSchemas
INVARIANT RegistryKeepsNewest
INVARIANT ReplayCoversLive
INVARIANT OrderedLogRestores
