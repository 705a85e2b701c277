SPECIFICATION Spec
CONSTANTS
  Core = {0}
  Tech = {"L2", "MBA", "SMBA"}
  Dom <- DomOne
  NumClos <- ClosNoL3
  Supported = {"l2cdp", "mba40"}
  Chan = {}
  Def = {full, part}
  Full = full
  MaxCa = 1
  Requests <- AskL2Mba
  Faults = {"msr"}
INVARIANT TypeOK
INVARIANT ResetRestores
PROPERTY SetIsWhatGetReturns
PROPERTY ProbeIsHarmless
