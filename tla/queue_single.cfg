CONSTANTS
  w1 = w1
  w2 = w2
  k1 = k1
  k2 = k2
  NoKey = NoKey
  Worker = {w1}
  Key = {k1,k2}
  UnregisteredKey = {}
  SlowKey = {k1}
  MaxRetries = 2
  TicksUntilRecovery = 1
  MaxJobId = 2
  MaxEnqueue = 2
  MaxDisruptions = 1
  GivenDependsOn <- EitherParent
SPECIFICATION FairSpec
INVARIANTS
  RunningIsAccountedFor
  RetryBounded
  CompletedAfterLastEnqueue
  MissingParentsSucceeded
PROPERTIES
  FailedStaysFailed
  ImplementsLease
  QueueDrains
  ReenqueueIsServed
