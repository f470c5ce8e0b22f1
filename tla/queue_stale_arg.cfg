CONSTANTS
  w1 = w1
  w2 = w2
  k1 = k1
  k2 = k2
  NoKey = NoKey
  Worker = {w1}
  Key = {k1}
  UnregisteredKey = {}
  SlowKey = {}
  MaxRetries = 2
  TicksUntilRecovery = 1
  MaxJobId = 1
  MaxEnqueue = 2
  MaxDisruptions = 0
  GivenDependsOn <- NoParent
SPECIFICATION Spec
INVARIANT CompletedWithLatestArg
