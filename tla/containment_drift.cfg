SPECIFICATION ContainmentSpec
CONSTANTS
  o1 = o1
  in = in
  out = out
  Operators <- MCOperators
  RuleNames <- MCRuleNames
  DriftCheck = TRUE
  Mishaps = {"loss"}
  MaxRequests = 2
  MaxMishaps = 1
PROPERTIES
  StatusWins
