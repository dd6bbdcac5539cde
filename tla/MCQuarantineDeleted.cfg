SPECIFICATION QuarantineSpec
CONSTANTS
  a1 = a1
  a2 = a2
  Alerts = {a1, a2}
  Automatic = {a1}
  MaxFiles = 3
  MaxFaults = 2
INVARIANTS NothingDeleted
CHECK_DEADLOCK FALSE
