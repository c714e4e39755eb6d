SPECIFICATION Spec
CONSTANTS
  Requests = {r1, r2, r3}
  Workspaces = {w1}
  NoWorkspace = none
  Servers = {s1, s2}
  TTL = 2
  MaxClock = 4
  MaxOpen = 2
  WarmEnabled = TRUE
  MayCrash = TRUE
  MayFail = FALSE
  ClockMayStepBack = FALSE
SYMMETRY Symmetry
INVARIANT WarmingRestoresShield
