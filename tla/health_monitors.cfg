SPECIFICATION MCSpec
CONSTANTS
  Servers = {g, h}
  Github = {g}
  Tasks = {k1, k2}
  Calls = {c1, c2}
  NoTask = none
  NoServer = noServer
  Endpoints = 1
  MaxCache = 1
  Batched = {"s1", "s2", "s3"}
  BatchSize = 2
  MaxConcurrent = 1
INVARIANT CacheFits
INVARIANT OneWatcher
INVARIANT AddedIsWatched
INVARIANT QuietOnceStopped
PROPERTY StopEnds
INVARIANT OrphansWereInTheRound
PROPERTY EveryServerChecked
