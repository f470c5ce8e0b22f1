CONSTANTS
  w1 = w1
  w2 = w2
  k1 = k1
  k2 = k2
  NoKey = NoKey
  Worker = {w1,w2}
  Key = {k1,k2}
  UnregisteredKey = {NoKey}
  SlowKey = {}
  MaxRetries = 1
  TicksUntilRecovery = 1
  MaxJobId = 3
  MaxEnqueue = 3
  MaxDisruptions = 0
  GivenDependsOn <- BothParents
SPECIFICATION Spec
SYMMETRY WorkerAndKeySymmetry
INVARIANTS
  DependenciesHonoured
  IInv
  ExclusiveExecution
