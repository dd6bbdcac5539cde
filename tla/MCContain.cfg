\* Every fault, an evicting instance: two slots, three chains.
SPECIFICATION Spec
CONSTANTS
  Chains = {c1, c2, c3}
  NoChain = NoChain
  Max = 2
  TTL = 2
  Horizon = 2
  FileEnabled = FALSE
  Faults = {"tetra", "crash", "sensor"}
SYMMETRY ChainSymmetry
INVARIANTS
  SlotsConsistent
  KernelAccounted
  LowIsReleased
