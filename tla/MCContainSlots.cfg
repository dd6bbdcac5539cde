\* No fault at all: what an eviction does to the policy it makes room for.
SPECIFICATION Spec
CONSTANTS
  Chains = {c1, c2, c3}
  NoChain = NoChain
  Max = 2
  TTL = 2
  Horizon = 1
  FileEnabled = TRUE
  Faults = {}
INVARIANT RecordsLoaded
