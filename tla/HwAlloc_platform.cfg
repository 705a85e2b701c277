SPECIFICATION Spec
CONSTANTS
  Core = {0, 1}
  Tech = {"L3", "L2"}
  Dom <- DomShared
  NumClos <- ClosMixed
  Supported = {"l3cdp", "l3iordt", "l2cdp"}
  Chan = {ch}
  Def = {full}
  Full = full
  MaxCa = 2
  Requests <- AskCdp
  Faults = {"crash", "mmio", "mem"}
INVARIANT AssignExclusive
INVARIANT CapMatchesHw
INVARIANT ClassesExist
