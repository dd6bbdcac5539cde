CONSTANTS
  a = a
  b = b
  listed = listed
  Removed = Removed
  Indexes <- MCIndexes
  Window = 2
  Keep = 2
  MaxSeq = 3
  MaxList = 3
  MaxFaults = 3
SPECIFICATION FairSpec
INVARIANTS
  PackagesExact
  NamesWhatIsThere
PROPERTY FeedsArrive
