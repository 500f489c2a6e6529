SPECIFICATION FairSpec
CONSTANTS
  Modes = {"map", "source"}
  Inputs = 4
  Results = 2
  OutRoom = 2
  InRoom = 3
  MaxFaults = 3
INVARIANTS NothingLost WholeRecords
PROPERTIES FlatMapReturns CloseReturns
CHECK_DEADLOCK FALSE
