CONSTANTS
  Setups <- AllSetups
  Unit = {1, 2}
  Modulus = 4
  PmuModulus = 2
  Wide = 100
  Boot = {0, 3}
  Held = {0, 1}
  Scale = 2
  Tries <- TryScripts
  MaxTraffic = 2
  MaxPolls = 3
  MaxStarts = 2
  MaxMoves = 1
  Faults = {"tries", "msr", "mmio", "noton", "overflow", "perf", "file", "away", "purge", "lock"}
SPECIFICATION PollSpec
INVARIANT ValuesSound
INVARIANT DeltaExact
CHECK_DEADLOCK FALSE
