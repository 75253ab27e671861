SPECIFICATION Spec
CONSTANTS
  k1 = k1
  k2 = k2
  h1 = h1
  h2 = h2
  x1 = x1
  x2 = x2
  x3 = x3
  Calls <- MCCalls
  Hosts <- MCHosts
  NRules = 1
  RollsBack <- MCRollsBack
  Exclusions <- MCExclusions
  Pattern <- MCPattern
  Stored <- MCStored
  MaxEdits = 2
  MaxFaults = 2
SYMMETRY MCSymmetry
INVARIANTS
  ExcludedSpared
  CooldownPerHost
  RollbackToCome
PROPERTY
  ApprovalHolds
CHECK_DEADLOCK FALSE
