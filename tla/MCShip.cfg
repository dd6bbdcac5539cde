SPECIFICATION FairSpec
CONSTANTS
  Last = 2
  Protected = {1}
  ReadMax = 2
  BatchMax = 1
  BufferMax = 2
  RecentMax = 1
  MaxFaults = 1
  MaxTurns = 2
  TailFits = TRUE
INVARIANTS
  NothingSkipped
  NothingForgotten
  PendingExact
  OncePerFault
PROPERTIES
  KeepsPromise
