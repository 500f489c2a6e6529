SPECIFICATION FairSpec
CONSTANTS
  Capacity = 4
  WriteLens = {0, 1, 3, 6}
  ReadLens = {1, 3}
  MaxWrite = 10
INVARIANTS
  InOrder
  NoSharedCell
  EofMeansDrained
PROPERTIES
  EndIsReached
  ImplementsChannel
