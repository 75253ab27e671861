SPECIFICATION Spec
CONSTANTS
  Lens <- MCLens
  HeaderLen = 8
  SealLen = 4
  MaxBytes = 40
  MaxFiles = 3
  ShrinkAt = 2
  AckSizes <- MCAckSizes
  MaxSeq = 5
  MaxId = 6
  MaxFaults = 3
INVARIANTS
  Durable
  WriteOrder
  FaultFreeReadable
PROPERTIES
  CountCapped
  ImplementsSpool
