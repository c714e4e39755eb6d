SPECIFICATION Spec
CONSTANTS
  Requests = {r1, r2, r3}
  Workspaces = {w1}
  NoWorkspace = none
  Servers = {s1, s2}
  TTL = 1
  MaxClock = 2
  MaxOpen = 2
  WarmEnabled = TRUE
  MayCrash = TRUE
  MayFail = TRUE
  ClockMayStepBack = TRUE
SYMMETRY Symmetry
INVARIANT TypeOK
INVARIANT ShieldOnlyObserved
PROPERTY KeepsContract
