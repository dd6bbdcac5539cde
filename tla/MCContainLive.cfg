\* Temporal properties under every fault: one slot, two chains, no symmetry.
SPECIFICATION FairSpec
CONSTANTS
  Chains = {c1, c2}
  NoChain = NoChain
  Max = 1
  TTL = 1
  Horizon = 2
  FileEnabled = FALSE
  Faults = {"tetra", "crash", "sensor"}
PROPERTIES
  RecordsExpire
  BlocksLifted
