SPECIFICATION Spec
CONSTANTS
  a1 = a1
  a2 = a2
  c1 = c1
  c2 = c2
  None = None
  Agents <- MCAgents
  Callers <- MCCallers
  Configs <- MCConfigs
  Cooldown = 2
  Budget = 2
  Window = 3
  MaxTime = 3
  MaxGrants = 3
SYMMETRY MCSymmetry
INVARIANTS
  BudgetHolds
  CooldownHolds
  SentUnderGrant
  RowsTellTruth
PROPERTY
  RefusalJustified
