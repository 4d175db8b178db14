SPECIFICATION FairSpec
CONSTANTS
  j1 = j1
  j2 = j2
  j3 = j3
  order1 = order1
  order2 = order2
  NoKey = NoKey
  Jobs = {j1, j2, j3}
  Corr <- CorrOf
  Idem <- NoKeys
  Delay <- DueAtOnce
  LeaseTicks = 0
  ReclaimLimit = 100
  Messages = 3
  MsgKey <- WithPoison
  Transports = {"kafka", "rabbitmq", "redis"}
  Prefetch = 1
  GetHasKey = TRUE
  Batch = 1
  Calls <- CallsOf
  FaultKinds <- FaultsOf
  MaxEvents = 2
INVARIANTS TypeOK NothingLost OnlyPoisonDeadLettered PublishedWasSent OneAnswer
PROPERTIES EveryMessageAnswered
CHECK_DEADLOCK FALSE
