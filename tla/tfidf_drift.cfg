CONSTANTS
  MaxEntry = 2
  Term = {t1}
  MaxRate = 100
  MinValidTerms = 1
  MinShared = 0
  ChunkSize = 2
  MaxSaves = 3
  MaxRuns = 0
  MaxFaults = 0
  MaxEvents = 3
SPECIFICATION Spec
CHECK_DEADLOCK FALSE
INVARIANT DfIsExact
