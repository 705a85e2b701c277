SPECIFICATION FairSpec
CONSTANTS
  Core = {0, 2}
  Task = {10, 11}
  Leader = {10, 11}
  Self = 10
  Tech = {"L3", "L2", "MBA", "SMBA"}
  Ids <- TwoIds
  NumClos <- Classes4
  Ways = {0, 1, 2}
  Sparse = {}
  Cdp = {"L3"}
  Ctrl = TRUE
  Step = 10
  MbaMax <- Max100
  Unlimited = 4000
  CoreLists <- Lists
  AskClass = {0, 2}
  TaskLists <- BothTasks
  Requests <- Asks
  Configs <- Cfgs
  PeerCore = {2}
  PeerEntry <- Narrow
  MaxCalls = 2
  Faults = {"io", "busy", "mount", "mkdir"}
INVARIANT Consistent
INVARIANT OkMeansDone
PROPERTY OnlyAsked
PROPERTY CallReturns
