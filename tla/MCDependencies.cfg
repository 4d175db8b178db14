SPECIFICATION FairSpec
CONSTANTS
  w1 = w1
  w2 = w2
  user = user
  batcher = batcher
  first = first
  second = second
  third = third
  other = other
  group1 = group1
  key1 = key1
  NoKey = NoKey
  Jobs = {first, second, third, other}
  Workers = {w1}
  Callers = {user, batcher}
  Submitter = batcher
  Corr <- Keyless
  Idem <- IdemOf
  Delay <- DelayOf
  LeaseTicks = 1
  ReclaimLimit = 20
  agent = agent
  Dims <- DimsOf
  Session <- SessionOf
  SlotLimit <- Limits
  Burst <- Bursts
  Deps <- DepsOf
  Group <- GroupOf
  Rank <- RankOf
  Place <- PlaceOf
  Items <- ItemsOf
  Concurrency = 2
  PollLimit = 10
  Calls <- UserCancels
  MaxCalls = 1
  SubmitFails = TRUE
INVARIANTS TypeOK NoEarlyStart PhasesInOrder SlotsHeld FailedBatchLeavesNothing
PROPERTIES NeverFailedForNothing EverySettles
CHECK_DEADLOCK FALSE
