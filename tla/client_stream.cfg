SPECIFICATION Spec
CONSTANTS
  FileSize = 5
  ChunkSize = 2
  MaxResponse = 3
  Budget = 2
  Capacity = 3
INVARIANTS
  FramesAligned
  PutSuccessMeansStored
  GetSuccessMeansComplete
PROPERTIES
  ClientReturns
