SPECIFICATION ContainmentSpec
CONSTANTS
  o1 = o1
  in = in
  out = out
  Operators <- MCOperators
  RuleNames <- MCRuleNames
  DriftCheck = TRUE
  Mishaps = {"loss", "fault", "tamper", "restart", "silence"}
  MaxRequests = 2
  MaxMishaps = 2

  
PROPERTIES
  FollowsStatus
  
