\* Four alerts of two trees, one live chain, stories of three steps.
SPECIFICATION Spec
CONSTANTS
  Trees = {t1, t2}
  Kinds <- MCKinds
  LastAlert = 4
  LastTime = 2
  Window = 1
  MaxSpan = 1
  DedupeSecs = 1
  MaxSteps = 3
  MaxChains = 1
  MaxRecent = 3
SYMMETRY Symmetry
CHECK_DEADLOCK FALSE
INVARIANTS VerdictIsOfAll NothingMissed RecordIsCurrent
