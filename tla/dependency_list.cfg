CONSTANTS
  Parent = {1, 2, 3}
  MaxGiven = 2
SPECIFICATION Spec
INVARIANTS
  MergeAgrees
  EvaluateAgrees
  NoGhostJob
  WeakenedOnlyByAny
