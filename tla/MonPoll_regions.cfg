CONSTANTS
  Setups <- RegionSetups
  Unit = {1, 2}
  Modulus = 4
  PmuModulus = 3
  Wide = 100
  Boot = {0, 3}
  Held = {0, 1}
  Scale = 2
  Tries <- TryScripts
  MaxTraffic = 3
  MaxPolls = 3
  MaxStarts = 1
  MaxMoves = 0
  Faults = {}
SPECIFICATION PollSpec
INVARIANT RegionTrue
CHECK_DEADLOCK FALSE
