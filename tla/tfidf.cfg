CONSTANTS
  MaxEntry = 2
  Term = {t1, t2}
  MaxRate = 100
  MinValidTerms = 1
  MinShared = 0
  ChunkSize = 2
  MaxSaves = 4
  MaxRuns = 1
  MaxFaults = 1
  MaxEvents = 5
SPECIFICATION Spec
SYMMETRY TermSymmetry
CHECK_DEADLOCK FALSE
INVARIANTS
  IndexedWhenDone
  DfCountsHolders
  SearchFindsHolders
  SettledIsCurrent
