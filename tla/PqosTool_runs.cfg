SPECIFICATION Spec
CONSTANTS
  Core = {0, 1, 2}
  Pid = {50, 51, 52, 53}
  Channel = {31, 32}
  Dev = {7}
  DevChannels <- MCDevChannels
  L3Id = {0, 1}
  L2Id = {1}
  Domain = {0, 1}
  Class = {0, 1, 2}
  NumRegions = 2
  MaxBw = 8
  MaxRegions = 4
  MaxDomains = 4
  TabMax = 2
  MaxIds = 4
  MaxAllocOpts = 3
  ProfileDefs <- MCProfileDefs
  SocketOf <- MCSocketOf
  MaxRmid = 3
  PidListMax = 4
  PidBuf = 2
  VcMax = 3
  TopProcMax = 2
  File = {f1, f2}
  MaxSwitch = 1
  NoFile = none
  Options <- MCOptions
  CommandLines <- MCCommandLines
  Platforms <- MCPlatforms
  MaxFail = 4
  MaxOverflow = 1
  MaxTicks = 2
INVARIANT EndsClean
INVARIANT AsAsked
INVARIANT FilesByName
PROPERTY Stops
