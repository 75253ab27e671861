SPECIFICATION DedupSpec
CONSTANTS
  r1 = r1
  r2 = r2
  a1 = a1
  a2 = a2
  a3 = a3
  Servers <- MCServers
  Alerts <- MCAlerts
  Rule <- MCOne
  Spelling <- MCSpelling
  Severity <- MCSeverity
  Source <- MCOne
  Technique <- MCOne
  Agent <- MCOne
  NoTechnique = 0
  None = None
  TitleWindow = 2
  TechniqueWindow = 2
  Interval = 1
  Limit = 2
  MaxTime = 3
  MaxEdits = 1
  MaxSlips = 1
SYMMETRY MCSymmetry
INVARIANTS
  SurvivorRemains
  DuplicatesMerged
PROPERTY
  DecisionHolds
CHECK_DEADLOCK FALSE
