SPECIFICATION Spec
CONSTANTS
  j1 = j1
  j2 = j2
  j3 = j3
  order1 = order1
  order2 = order2
  NoKey = NoKey
  Jobs = {j1, j2, j3}
  Corr <- CorrOf
  Idem <- NoKeys
  Delay <- DueAtOnce
  LeaseTicks = 0
  ReclaimLimit = 100
  Messages = 3
  MsgKey <- WithPoison
  Transports = {"kafka"}
  Prefetch = 1
  GetHasKey = TRUE
  Batch = 1
  Calls <- NoCalls
  FaultKinds <- StoreErrors
  MaxEvents = 1
INVARIANTS NothingLost
CHECK_DEADLOCK FALSE
