SPECIFICATION Spec
CONSTANTS
  Core = {0, 1, 2}
  Cluster <- Cluster3
  Numa <- Numa3
  SncNum = 2
  RmidNum = 4
  MaxRmid <- Rmids
  IoEvents = {"l3"}
  Chan = {10, 11}
  Tagging = {10, 11}
  Place <- Place2
  Ref = {}
  Boot = {1}
  Group = {g1, g2}
  Asked = {{"l3"}, {"local", "pmu"}}
  Configs <- AskAll
  Faults = {"crash", "msr", "mmio"}
SYMMETRY GroupSymmetry
INVARIANT TypeOK
INVARIANT RmidExclusive
INVARIANT GroupSound
INVARIANT NothingStray
