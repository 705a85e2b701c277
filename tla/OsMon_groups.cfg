SPECIFICATION Spec
CONSTANTS
  Core = {0, 1, 2}
  L3id <- Caches
  Process = {10}
  Threads <- TwoThreads
  Class = {0, 1}
  Handle = {"h1", "h2"}
  Owner <- Owners
  Static = {"h1"}
  PerfSupport = TRUE
  PerfRdt = {}
  L3Mon = {"LLC"}
  PkgMon = {}
  MaxRmid = 3
  MaxDirs = 2
  CoreSets <- Cores
  PidSets <- Pids
  EventSets = {{"LLC", "LLC_MISS"}, {"ACTIVITY"}, {"LLC_MISS"}}
  MaxCalls = 4
  Movable = {0, 10}
  MaxMoves = 1
  Faults = {"end", "crash", "move", "perf", "lock", "unavail"}
INVARIANT CountedApart
INVARIANT NothingLeft
PROPERTY OthersUntouched
CHECK_DEADLOCK FALSE
