SPECIFICATION Spec
CONSTANTS
  MaxRelease = 3
  Broken <- MCBroken
  MaxKills = 2
  MaxDeaths = 2
  MaxFaults = 2
INVARIANT
  FallbackKept
PROPERTIES
  AlwaysServed
  EventuallyCurrent
