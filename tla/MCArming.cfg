\* Two policies, every fault, and time that does not end.
SPECIFICATION FairSpec
CONSTANTS
  p = p
  c = c
  Policies <- MCPolicies
  Canary = c
  VerifyEvery = 1
  ArmWait = 2
  Backoff <- MCBackoff
  DedupeFor = 1
  MaxTries = 1
  MaxRows = 1
  OtherPins = 1
  MaxRestarts = 1
INVARIANTS TypeOK GapsAreTold
PROPERTIES AlarmsAreTrueAndNew VerdictsAreTrue ArmingEnds EnforcedOrShown
