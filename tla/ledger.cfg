SPECIFICATION Spec
CONSTANTS
  c1 = c1
  c2 = c2
  Commands <- MCCommands
  Kind <- MCKind
  MaxFaults = 2
INVARIANTS
  RowsTellTruth
  DeliveredInOrder
  TimeoutMeansSilence
PROPERTIES
  OnlyIssuerReopens
  EventuallyClosed
CHECK_DEADLOCK FALSE
