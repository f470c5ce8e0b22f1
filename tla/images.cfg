CONSTANTS
  u1 = u1
  u2 = u2
  MaxEntry = 2
  Listed <- ByDate
  Uri = {u1, u2}
  Escaped = {u2}
  SigOf <- Pictures
  SigBits = 4
  Window = 2
  MaxSimilar = 3
  ChunkSize = 1
  MaxSaves = 2
  MaxRuns = 1
  MaxFaults = 1
SPECIFICATION Spec
CHECK_DEADLOCK FALSE
INVARIANTS
  ImagesFollowText
  CacheIsCurrent
  SignatureIsOwn
