SPECIFICATION Spec
CONSTANTS
  CpuAgents <- MCCpuAgents
  DevAgents <- MCDevAgents
  MaxClos = 2
  MaxRmids = 40
  Mrrm = {0, 3}
  CpuPerSocket = 2
  DevPerSocket = 1
  MbaSets <- MCMbaSets
  MbaGets <- MCMbaGets
  CatSets <- MCCatSets
  CatGets <- MCCatGets
  Dumps <- MCDumps
  RmidDumps <- MCRmidDumps
  MBA_MAX_BW = 511
  MaxCalls = 3
  Faults = {"map", "alloc_reset"}
INVARIANT RegistersSound
INVARIANT DumpsExact
PROPERTY SetsExact
