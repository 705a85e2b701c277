SPECIFICATION MmioSpec
CONSTANTS
  Core = {0, 1, 2, 3}
  Cluster <- Cluster4
  Numa <- Numa4
  SncNum = 1
  RmidNum = 4
  MaxRmid <- Rmids
  IoEvents = {"io-llc"}
  Chan = {10, 11, 12}
  Tagging = {10, 11, 12}
  Place <- Place3
  Ref = {}
  Boot = {0}
  Group = {g1, g2}
  Asked = {{"total"}, {"l3", "local"}, {"io-llc"}}
  Configs <- ResetOn
  Faults = {"crash", "mmio", "msr"}
  CpuDomain <- CpuDomain4
  CpuMax <- CpuMax3
  DevDomain <- DevDomain3
  DevMax <- DevMax3
SYMMETRY GroupSymmetry
INVARIANT CountsItself
INVARIANT NothingLeftTagged
