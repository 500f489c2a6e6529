SPECIFICATION FairSpec
CONSTANTS
  Capacity = 4
  HeaderLen = 1
  RecordLens = {0, 1, 2}
  WriteLens = {1, 3}
  ReadLens = {0, 1, 3}
  MaxWrite = 10
INVARIANTS
  InOrder
  NoSharedCell
  ReservedNeverWaits
PROPERTIES
  ClosedIsDrained
  WriteReturns
  ImplementsChannel
